---- MODULE Spec2Model ----
(***************************************************************************)
(* Model of the trdb storage core: the slotted page (crates/storage/page)  *)
(* and the buffer pool (crates/storage/buffer).                            *)
(*                                                                         *)
(* A byte array is represented by its runs: a sequence of records         *)
(* [s, v], s strictly increasing from 0, meaning that the bytes from       *)
(* offset s up to the next run's s all have the value v.  Arrays are kept  *)
(* canonical (adjacent runs differ in v), so two arrays are equal as       *)
(* TLA+ values iff they hold the same bytes.                               *)
(*                                                                         *)
(* The 4096-byte array `data` of a Page is held as a record                *)
(*   hdr   : the header fields stored in bytes [0, 16), decoded            *)
(*   slots : the slot entries stored in the last 4*Len(slots) bytes,       *)
(*           decoded; slots[i+1] is logical slot i, which lives at         *)
(*           bytes [4096 - 4(i+1), 4096 - 4i)                              *)
(*   body  : all other bytes (the decoded regions read as 0 in body)       *)
(* PageBytes gives the byte array this record stands for and FromBytes     *)
(* the record of a byte array.  A row write or read that reaches into the  *)
(* header fields or the decoded slot entries goes through the byte array   *)
(* (WriteBytes / ReadBytes), so a row written over a slot entry changes    *)
(* the slot, and a slot entry written over row bytes changes the row.      *)
(***************************************************************************)
EXTENDS Integers, Sequences, FiniteSets, TLC

\* ------------------------------------------------------------------------
\* Program constants
\* ------------------------------------------------------------------------
PAGE_SIZE == 4096
HEADER_SIZE == 96
SLOT_SIZE == 4

\* Header field offsets (impl_header_accessors!)
SLOT_COUNT == 0
FREE_START == 2
FREE_END == 4
FREE_SPACE == 6
CAN_COMPACT == 8
PAGE_NUMBER == 10
PAGE_TYPE == 14

\* PageType::Unsorted as u16
PT_UNSORTED == 1

\* ------------------------------------------------------------------------
\* Bounds of the model
\* ------------------------------------------------------------------------
\* Number of page operations in one behaviour
MaxOps == 4
\* Largest slot index passed to delete_row / update_row
MaxSlotIndex == 3
\* Number of calls made on the page of OverlapSpec
OverlapOps == 2
\* Calls made on the page that is offered empty rows
EmptyOps == 3
\* Row lengths offered to insert_heap / update_row
RowLens == {1, 1000, 2000, 2995, 2996}

\* ------------------------------------------------------------------------
\* Byte arrays
\* ------------------------------------------------------------------------
\* The array whose bytes are all v
Const(v) == <<[s |-> 0, v |-> v]>>

\* bytes[x]
ByteAt(r, x) == r[Cardinality({i \in 1 .. Len(r) : r[i].s <= x})].v

\* dst[to .. to+len].copy_from_slice(&src[from .. from+len]) on an array dst
\* of `size` bytes.  dst and src are canonical, so the only runs that can
\* repeat the value before them are the one at `to` and the one at `to+len`.
Splice(dst, size, to, len, src, from) ==
    IF len = 0 THEN dst
    ELSE
      LET pre   == SelectSeq(dst, LAMBDA x : x.s < to)
          in    == SelectSeq(src, LAMBDA x : x.s > from /\ x.s < from + len)
          first == ByteAt(src, from)
          lastv == IF in = <<>> THEN first ELSE in[Len(in)].v
          head  == IF pre # <<>> /\ pre[Len(pre)].v = first
                     THEN <<>> ELSE <<[s |-> to, v |-> first]>>
          mid   == head \o [i \in 1 .. Len(in) |-> [s |-> in[i].s - from + to, v |-> in[i].v]]
          tail  == IF to + len < size /\ ByteAt(dst, to + len) # lastv
                     THEN <<[s |-> to + len, v |-> ByteAt(dst, to + len)]>>
                     ELSE <<>>
      IN  pre \o mid \o tail \o SelectSeq(dst, LAMBDA x : x.s > to + len)

\* &bytes[lo .. lo+len] as an array of its own
Slice(r, lo, len) == Splice(Const(0), len, 0, len, r, lo)

\* The bytes of vec![v; n]
Fill(n, v) == Splice(Const(0), n, 0, n, Const(v), 0)

\* A Vec<u8>: its length and its bytes
Vec(n, bytes) == [len |-> n, bytes |-> bytes]

\* vec![v; n]
FillRow(n, v) == Vec(n, Fill(n, v))

\* The three bytes t[1], t[2], t[3]
Bytes3(t) == Splice(Splice(Const(t[1]), 3, 1, 1, Const(t[2]), 0), 3, 2, 1, Const(t[3]), 0)

\* vec![v; n] with its last three bytes replaced by t[1], t[2], t[3]
TrailerRow(n, v, t) == Vec(n, Splice(Fill(n, v), n, n - 3, 3, Bytes3(t), 0))

\* read_le::<u16>(bytes, off)
ReadU16(r, off) == ByteAt(r, off) + 256 * ByteAt(r, off + 1)

\* read_le::<u32>(bytes, off)
ReadU32(r, off) == ReadU16(r, off) + 65536 * ReadU16(r, off + 2)

\* Byte k (0 = least significant) of the little-endian encoding of val
\* (write_le)
LeByte(val, k) ==
    IF k = 0 THEN val % 256
    ELSE IF k = 1 THEN (val \div 256) % 256
    ELSE IF k = 2 THEN (val \div 65536) % 256
    ELSE (val \div 16777216) % 256

\* The canonical form of a run sequence: the runs that repeat the value of
\* the run before them are dropped
Canonical(r) ==
    LET z    == [i \in 1 .. Len(r) |->
                   [s |-> r[i].s, v |-> r[i].v, p |-> IF i = 1 THEN -1 ELSE r[i - 1].v]]
        kept == SelectSeq(z, LAMBDA e : e.v # e.p)
    IN  [i \in 1 .. Len(kept) |-> [s |-> kept[i].s, v |-> kept[i].v]]

\* ------------------------------------------------------------------------
\* The page record and the byte array it stands for
\* ------------------------------------------------------------------------
\* End of the header fields held decoded in hdr
HDR_FIELDS_END == 16

ZeroHdr == [slot_count |-> 0, free_start |-> 0, free_end |-> 0, free_space |-> 0,
            can_compact |-> 0, page_number |-> 0, page_type |-> 0]

\* Page::new_zeroed
new_zeroed == [hdr |-> ZeroHdr, slots |-> <<>>, body |-> Const(0)]

\* Offset of the first byte of the entry of logical slot i
CellStart(i) == PAGE_SIZE - (i + 1) * SLOT_SIZE

\* First byte of the decoded slot entries of p
CellsStart(p) == PAGE_SIZE - Len(p.slots) * SLOT_SIZE

\* Byte k of the header fields of h (the impl_header_accessors! layout)
HdrByte(h, k) ==
    IF k < FREE_START THEN LeByte(h.slot_count, k - SLOT_COUNT)
    ELSE IF k < FREE_END THEN LeByte(h.free_start, k - FREE_START)
    ELSE IF k < FREE_SPACE THEN LeByte(h.free_end, k - FREE_END)
    ELSE IF k < CAN_COMPACT THEN LeByte(h.free_space, k - FREE_SPACE)
    ELSE IF k < PAGE_NUMBER THEN LeByte(h.can_compact, k - CAN_COMPACT)
    ELSE IF k < PAGE_TYPE THEN LeByte(h.page_number, k - PAGE_NUMBER)
    ELSE LeByte(h.page_type, k - PAGE_TYPE)

\* Byte k of the entry of a slot: offset at +0, length at +2 (SlotMut)
SlotByte(slot, k) == IF k < 2 THEN LeByte(slot.offset, k) ELSE LeByte(slot.length, k - 2)

\* The 4096 bytes of the page (Page::data)
PageBytes(p) ==
    LET n     == Len(p.slots)
        hdr   == [k \in 1 .. HDR_FIELDS_END |-> [s |-> k - 1, v |-> HdrByte(p.hdr, k - 1)]]
        body  == <<[s |-> HDR_FIELDS_END, v |-> ByteAt(p.body, HDR_FIELDS_END)]>>
                   \o SelectSeq(p.body, LAMBDA x : x.s > HDR_FIELDS_END /\ x.s < CellsStart(p))
        cells == [k \in 1 .. n * SLOT_SIZE |->
                    [s |-> CellsStart(p) + k - 1,
                     v |-> SlotByte(p.slots[n - ((k - 1) \div SLOT_SIZE)], (k - 1) % SLOT_SIZE)]]
    IN  Canonical(hdr \o body \o cells)

\* The page record of a byte array, with n slot entries decoded
FromBytes(r, n) ==
    LET cleared == Splice(Splice(r, PAGE_SIZE, 0, HDR_FIELDS_END, Const(0), 0),
                          PAGE_SIZE, PAGE_SIZE - n * SLOT_SIZE, n * SLOT_SIZE, Const(0), 0)
    IN  [hdr   |-> [slot_count |-> ReadU16(r, SLOT_COUNT), free_start |-> ReadU16(r, FREE_START),
                    free_end |-> ReadU16(r, FREE_END), free_space |-> ReadU16(r, FREE_SPACE),
                    can_compact |-> ReadU16(r, CAN_COMPACT),
                    page_number |-> ReadU32(r, PAGE_NUMBER),
                    page_type |-> ReadU16(r, PAGE_TYPE)],
         slots |-> [i \in 1 .. n |-> [offset |-> ReadU16(r, CellStart(i - 1)),
                                      length |-> ReadU16(r, CellStart(i - 1) + 2)]],
         body  |-> cleared]

\* The range [lo, lo+len) touches no decoded region of p
InBody(p, lo, len) == len = 0 \/ (lo >= HDR_FIELDS_END /\ lo + len <= CellsStart(p))

\* self.data[to .. to+len].copy_from_slice(&src[from .. from+len])
WriteBytes(p, to, len, src, from) ==
    IF InBody(p, to, len)
      THEN [p EXCEPT !.body = Splice(p.body, PAGE_SIZE, to, len, src, from)]
      ELSE FromBytes(Splice(PageBytes(p), PAGE_SIZE, to, len, src, from), Len(p.slots))

\* &self.data[lo .. lo+len] as an array of its own
ReadBytes(p, lo, len) ==
    IF InBody(p, lo, len) THEN Slice(p.body, lo, len) ELSE Slice(PageBytes(p), lo, len)

\* p with the entries of logical slots 0 .. n-1 decoded
EnsureSlots(p, n) ==
    IF Len(p.slots) >= n THEN p ELSE FromBytes(PageBytes(p), n)

\* ------------------------------------------------------------------------
\* Header accessors
\* ------------------------------------------------------------------------
get_slot_count(p) == p.hdr.slot_count
get_free_start(p) == p.hdr.free_start
get_free_end(p) == p.hdr.free_end
get_free_space(p) == p.hdr.free_space
get_can_compact(p) == p.hdr.can_compact

set_slot_count(p, v) == [p EXCEPT !.hdr.slot_count = v]
set_free_start(p, v) == [p EXCEPT !.hdr.free_start = v]
set_free_end(p, v) == [p EXCEPT !.hdr.free_end = v]
set_free_space(p, v) == [p EXCEPT !.hdr.free_space = v]
set_can_compact(p, v) == [p EXCEPT !.hdr.can_compact = v]

\* HeaderMut::default
HeaderDefault(p, page_number, page_type) ==
    [p EXCEPT !.hdr.page_number = page_number,
              !.hdr.free_start = HEADER_SIZE,
              !.hdr.free_end = PAGE_SIZE - 1,
              !.hdr.free_space = PAGE_SIZE - HEADER_SIZE,
              !.hdr.page_type = page_type]

\* Page::initialize: zero the array, then reset the header
initialize(page_number, page_type) ==
    HeaderDefault(new_zeroed, page_number, page_type)

\* ------------------------------------------------------------------------
\* Slot array
\* ------------------------------------------------------------------------
\* slot_array_ref / slot_array_mut succeed: the region data[free_end+1 ..
\* PAGE_SIZE] is exactly slot_count * SLOT_SIZE bytes long
SlotArrayOk(p) ==
    /\ get_free_end(p) + 1 <= PAGE_SIZE
    /\ PAGE_SIZE - (get_free_end(p) + 1) = get_slot_count(p) * SLOT_SIZE

\* get_slot_start succeeds for slot_index: the checked_sub does not underflow
SlotInRange(p, slot_index) ==
    PAGE_SIZE - (get_free_end(p) + 1) - (slot_index + 1) * SLOT_SIZE >= 0

\* SlotRef::offset / SlotRef::length of the entry of slot_index
slot_offset(p, slot_index) == EnsureSlots(p, slot_index + 1).slots[slot_index + 1].offset
slot_length(p, slot_index) == EnsureSlots(p, slot_index + 1).slots[slot_index + 1].length

\* SlotArrayMut::set_slot
set_slot(p, slot_index, off, len) ==
    [EnsureSlots(p, slot_index + 1) EXCEPT
        !.slots[slot_index + 1] = [offset |-> off % 65536, length |-> len % 65536]]

\* SlotMut::set_length
set_slot_length(p, slot_index, len) ==
    [EnsureSlots(p, slot_index + 1) EXCEPT !.slots[slot_index + 1].length = len % 65536]

\* Page::is_slot_valid
is_slot_valid(p, slot_index) ==
    slot_length(p, slot_index) # 0 /\ slot_offset(p, slot_index) # 0

\* ------------------------------------------------------------------------
\* Page operations.  Each operator returns [res |-> ..., data |-> ...]:
\* res is "Ok", the name of the returned error, or "Panic" (an index out of
\* range or an arithmetic overflow); data is the byte array afterwards.
\* ------------------------------------------------------------------------
Result(r, d) == [res |-> r, data |-> d]

\* Page::read_row_internal: [res, len, bytes]
read_row_internal(d, slot_index) ==
    IF ~SlotArrayOk(d) THEN [res |-> "SlotRegionSizeMismatch", len |-> 0, bytes |-> Const(0)]
    ELSE IF ~SlotInRange(d, slot_index) THEN [res |-> "InvalidSlot", len |-> 0, bytes |-> Const(0)]
    ELSE
      LET offset == slot_offset(d, slot_index)
          length == slot_length(d, slot_index)
      IN  IF offset + length > PAGE_SIZE
            THEN [res |-> "Panic", len |-> 0, bytes |-> Const(0)]
            ELSE [res |-> "Ok", len |-> length, bytes |-> ReadBytes(d, offset, length)]

\* The body of the loop of Page::compact for a valid slot at slot_off of
\* slot_len bytes: the row is copied to new_buffer[write_head ..] and the
\* slot is set to its new offset.  st = [res, data, buf, wh]
compact_move_row(st, slot_index, slot_off, slot_len) ==
    LET bufsize == get_free_end(st.data) - HEADER_SIZE
    IN  IF slot_off + slot_len > PAGE_SIZE \/ st.wh + slot_len > bufsize
          THEN [st EXCEPT !.res = "Panic"]
          ELSE [res  |-> "Ok",
                data |-> set_slot(st.data, slot_index, HEADER_SIZE + st.wh, slot_len),
                buf  |-> Splice(st.buf, bufsize, st.wh, slot_len,
                                ReadBytes(st.data, slot_off, slot_len), 0),
                wh   |-> st.wh + slot_len]

\* One iteration of the loop of Page::compact
compact_slot(st, slot_index) ==
    IF ~SlotArrayOk(st.data) THEN [st EXCEPT !.res = "SlotRegionSizeMismatch"]
    ELSE IF ~is_slot_valid(st.data, slot_index) THEN st
    ELSE compact_move_row(st, slot_index, slot_offset(st.data, slot_index),
                          slot_length(st.data, slot_index))

\* The loop of Page::compact from slot_index on; it ends at the first error
RECURSIVE compact_loop(_, _, _)
compact_loop(slot_index, total_slots, st) ==
    IF slot_index >= total_slots \/ st.res # "Ok" THEN st
    ELSE compact_loop(slot_index + 1, total_slots, compact_slot(st, slot_index))

\* An end of compact that copies new_buffer back and leaves free_start
CopyBackOnly(st) ==
    IF st.res # "Ok" THEN Result(st.res, st.data)
    ELSE Result("Ok", WriteBytes(st.data, HEADER_SIZE, st.wh, st.buf, 0))

\* The end of Page::compact: new_buffer is copied back and free_start is set
compact_copy_back(st) ==
    IF st.res # "Ok" THEN Result(st.res, st.data)
    ELSE Result("Ok", set_free_start(WriteBytes(st.data, HEADER_SIZE, st.wh, st.buf, 0),
                                     (HEADER_SIZE + st.wh) % 65536))

\* Page::compact
compact(d) ==
    IF get_free_end(d) < HEADER_SIZE THEN Result("Panic", d)
    ELSE compact_copy_back(
           compact_loop(0, get_slot_count(d),
                        [res |-> "Ok", data |-> d, buf |-> Const(0), wh |-> 0]))

\* Page::get_insertion_slot: the index of the first invalid slot, or -1 for New
New == -1
first_or_new(invalid) ==
    IF invalid = {} THEN New
    ELSE CHOOSE i \in invalid : \A j \in invalid : i <= j

get_insertion_slot(d) ==
    first_or_new({i \in 0 .. get_slot_count(d) - 1 : ~is_slot_valid(d, i)})

\* The extent (start, end) of a valid slot; its length counts as zero when
\* it is the slot named by treat_slot_len_as_zero
extent(start, length, as_zero) ==
    [start |-> start, end |-> IF as_zero THEN start ELSE start + length]

\* The extents (start, end) of the valid slots from slot i on, in slot order
RECURSIVE collect_extents(_, _, _)
collect_extents(d, i, treat_slot_len_as_zero) ==
    IF i >= get_slot_count(d) THEN <<>>
    ELSE (IF is_slot_valid(d, i)
            THEN <<extent(slot_offset(d, i), slot_length(d, i), i = treat_slot_len_as_zero)>>
            ELSE <<>>)
         \o collect_extents(d, i + 1, treat_slot_len_as_zero)

\* extents.sort_by_key(|(start, _)| *start): a stable sort
RECURSIVE sort_by_start(_)
sort_by_start(ext) ==
    IF Len(ext) <= 1 THEN ext
    ELSE
      LET k == CHOOSE i \in 1 .. Len(ext) :
                 \A j \in 1 .. Len(ext) :
                    \/ ext[i].start < ext[j].start
                    \/ (ext[i].start = ext[j].start /\ i <= j)
          rest == [j \in 1 .. Len(ext) - 1 |-> IF j < k THEN ext[j] ELSE ext[j + 1]]
      IN  <<ext[k]>> \o sort_by_start(rest)

\* Insertion offsets
AfterCompactionFreeStart == [kind |-> "AfterCompactionFreeStart", pos |-> 0]
Exact(pos) == [kind |-> "Exact", pos |-> pos]

\* The choice of Page::find_insertion_offset among the extents of the valid
\* slots, sorted by start
None == -1
offset_among(free_start, free_end, extents, row_len) ==
    LET saturating == IF free_end >= free_start THEN free_end - free_start ELSE 0
        gaps       == {i \in 1 .. Len(extents) - 1 :
                         /\ extents[i + 1].start >= extents[i].end
                         /\ extents[i + 1].start - extents[i].end >= row_len}
        last_end   == extents[Len(extents)].end
    IN  IF saturating >= row_len THEN Exact(free_start)
        ELSE IF extents = <<>> THEN AfterCompactionFreeStart
        ELSE IF gaps # {}
          THEN Exact(extents[CHOOSE i \in gaps : \A j \in gaps : i <= j].end)
        ELSE IF free_end >= last_end /\ free_end - last_end >= row_len
          THEN Exact(last_end)
        ELSE AfterCompactionFreeStart

\* A planner that counts the bytes of the row being updated as taken
PlanKeepsOldRow(d, row_len, treat_slot_len_as_zero) ==
    offset_among(get_free_start(d), get_free_end(d),
                 sort_by_start(collect_extents(d, 0, None)), row_len)

\* Page::find_insertion_offset (treat_slot_len_as_zero = -1 for None)
find_insertion_offset(d, row_len, treat_slot_len_as_zero) ==
    offset_among(get_free_start(d), get_free_end(d),
                 sort_by_start(collect_extents(d, 0, treat_slot_len_as_zero)), row_len)

\* Page::plan_insert_internal once the insertion slot is known
plan_for_slot(d, row_len, slot) ==
    LET required_total == row_len + (IF slot = New THEN SLOT_SIZE ELSE 0)
    IN  IF get_free_space(d) < required_total
          THEN [res |-> "NotEnoughSpace", slot |-> slot, offset |-> AfterCompactionFreeStart]
          ELSE [res |-> "Ok", slot |-> slot,
                offset |-> find_insertion_offset(d, row_len, None)]

\* Page::plan_insert_internal: [res, slot, offset]
plan_insert_internal(d, row_len) ==
    IF ~SlotArrayOk(d)
      THEN [res |-> "SlotRegionSizeMismatch", slot |-> New, offset |-> AfterCompactionFreeStart]
      ELSE plan_for_slot(d, row_len, get_insertion_slot(d))

\* The end of Page::insert_row_unsorted_internal: the slot of the row
\* written to d5 is set
write_slot_of_row(d5, slot_index, start_offset, len) ==
    IF ~SlotArrayOk(d5) THEN Result("SlotRegionSizeMismatch", d5)
    ELSE IF ~SlotInRange(d5, slot_index) THEN Result("Ok", d5)
    ELSE Result("Ok", set_slot(d5, slot_index, start_offset, len))

\* Page::insert_row_unsorted_internal after its compaction step returned c
insert_after_compaction(c, plan, bytes) ==
    LET len == bytes.len
        d1 == c.data
        current_free_start == get_free_start(d1)
        start_offset == IF plan.offset.kind = "Exact" THEN plan.offset.pos ELSE current_free_start
        inserting_at_free_start == (start_offset = current_free_start)
        old_slot_count == get_slot_count(d1)
        inserting_new_slot == (plan.slot = New)
        slot_index == IF inserting_new_slot THEN old_slot_count ELSE plan.slot
        d2 == IF inserting_new_slot
                THEN set_free_end(set_slot_count(d1, (old_slot_count + 1) % 65536),
                                  get_free_end(d1) - SLOT_SIZE)
                ELSE d1
        d3 == IF inserting_at_free_start
                THEN set_free_start(d2, get_free_start(d2) + len)
                ELSE d2
        new_free_space == get_free_space(d3) - len - (IF inserting_new_slot THEN SLOT_SIZE ELSE 0)
        d4 == set_free_space(d3, new_free_space)
    IN  IF c.res # "Ok" THEN c
        ELSE IF inserting_new_slot /\ get_free_end(d1) < SLOT_SIZE THEN Result("Panic", d1)
        ELSE IF inserting_at_free_start /\ get_free_start(d2) + len > 65535 THEN Result("Panic", d2)
        ELSE IF new_free_space < 0 THEN Result("Panic", d3)
        ELSE IF start_offset + len > PAGE_SIZE THEN Result("Panic", d4)
        ELSE write_slot_of_row(WriteBytes(d4, start_offset, len, bytes.bytes, 0),
                               slot_index, start_offset, len)

\* An insert that never compacts the page
InsertWithoutCompacting(d, plan, bytes) == insert_after_compaction(Result("Ok", d), plan, bytes)

\* Page::insert_row_unsorted_internal
insert_row_unsorted_internal(d, plan, bytes) ==
    insert_after_compaction(
        IF plan.offset.kind = "AfterCompactionFreeStart" THEN compact(d) ELSE Result("Ok", d),
        plan, bytes)

\* An iteration that tracks the highest offset only
TrackMaxOnly(m, idx, offset, len) ==
    IF offset >= m.last_offset
      THEN [last_offset |-> offset, last_len |-> len, last_idx |-> idx,
            next_to_last_offset |-> m.last_offset,
            next_to_last_len |-> m.last_len]
    ELSE m

\* One iteration of the loop of Page::try_to_find_new_free_start for a valid
\* slot; m = [last_offset, last_len, last_idx, next_to_last_offset,
\* next_to_last_len]
track_last(m, idx, offset, len) ==
    IF offset >= m.last_offset
      THEN [last_offset |-> offset, last_len |-> len, last_idx |-> idx,
            next_to_last_offset |-> m.last_offset,
            next_to_last_len |-> m.last_len]
    ELSE IF offset > m.next_to_last_offset /\ offset < m.last_offset
      THEN [m EXCEPT !.next_to_last_offset = offset, !.next_to_last_len = len]
    ELSE m

\* The loop of Page::try_to_find_new_free_start from idx on
RECURSIVE find_last_loop(_, _, _)
find_last_loop(d, idx, m) ==
    IF idx >= get_slot_count(d) THEN m
    ELSE find_last_loop(d, idx + 1,
           IF is_slot_valid(d, idx)
             THEN track_last(m, idx, slot_offset(d, idx), slot_length(d, idx))
             ELSE m)

\* The end of Page::try_to_find_new_free_start: the new free_start, or -1
\* for None
end_of_next_to_last(m, deleted_idx) ==
    IF m.last_idx # deleted_idx THEN None
    ELSE IF m.next_to_last_offset + m.next_to_last_len = 0 THEN HEADER_SIZE
    ELSE m.next_to_last_offset + m.next_to_last_len

\* Page::try_to_find_new_free_start
try_to_find_new_free_start(d, deleted_idx) ==
    end_of_next_to_last(
        find_last_loop(d, 0,
            [last_offset |-> 0, last_len |-> 0, last_idx |-> 0,
             next_to_last_offset |-> 0, next_to_last_len |-> 0]),
        deleted_idx)

\* Page::delete_row_internal once the slot is invalidated (d1): the header
\* is given back row_size bytes and the new free_start, if there is one
delete_update_header(d1, row_size, can_reset_free_start) ==
    LET new_free_space == get_free_space(d1) + row_size
        d2 == set_free_space(d1, new_free_space)
    IN  IF new_free_space > 65535 THEN Result("Panic", d1)
        ELSE IF can_reset_free_start # None
          THEN Result("Ok", set_free_start(d2, can_reset_free_start % 65536))
        ELSE Result("Ok", set_can_compact(d2, 1))

\* delete_row_internal without its check that the slot is valid
DeleteUnchecked(d, slot_index) ==
    IF ~SlotArrayOk(d) THEN Result("SlotRegionSizeMismatch", d)
    ELSE IF ~SlotInRange(d, slot_index) THEN Result("InvalidSlot", d)
    ELSE delete_update_header(set_slot(d, slot_index, 0, 0), slot_length(d, slot_index),
                              try_to_find_new_free_start(d, slot_index))

\* Page::delete_row_internal up to (not including) the trailing compaction
delete_before_compact(d, slot_index) ==
    IF ~SlotArrayOk(d) THEN Result("SlotRegionSizeMismatch", d)
    ELSE IF ~SlotInRange(d, slot_index) THEN Result("InvalidSlot", d)
    ELSE IF ~is_slot_valid(d, slot_index) THEN Result("InvalidSlot", d)
    ELSE delete_update_header(set_slot(d, slot_index, 0, 0), slot_length(d, slot_index),
                              try_to_find_new_free_start(d, slot_index))

\* A delete that never compacts the page
NeverCompacts(pre, compact_requested) == pre

\* The trailing compaction of Page::delete_row_internal
compact_if_requested(pre, compact_requested) ==
    IF pre.res = "Ok" /\ compact_requested THEN compact(pre.data) ELSE pre

\* Page::delete_row_internal
delete_row_internal(d, slot_index, compact_requested) ==
    compact_if_requested(delete_before_compact(d, slot_index), compact_requested)

\* "Smaller", "Equal" or "Larger": the new row against the old one
update_scenario(len, old_row_length) ==
    IF len < old_row_length THEN "Smaller"
    ELSE IF len = old_row_length THEN "Equal" ELSE "Larger"

\* Page::update_internal once the row is written (d2): the slot and the
\* header are updated
update_slot_and_header(d2, old_row_slot_index, len, scenario, insertion_offset, insert_at_free_start, new_free_space) ==
    LET \* slot.set_length(..)?, and slot.set_offset(..)? when Larger
        ds == IF scenario = "Smaller"
                THEN set_slot_length(d2, old_row_slot_index, len)
                ELSE set_slot(d2, old_row_slot_index, insertion_offset, len)
        d3 == set_free_space(ds, new_free_space)
    IN  IF scenario = "Equal" THEN Result("Ok", d2)
        ELSE IF ~SlotArrayOk(d2) THEN Result("SlotRegionSizeMismatch", d2)
        ELSE IF ~SlotInRange(d2, old_row_slot_index) THEN Result("InvalidSlot", d2)
        ELSE IF new_free_space > 65535 THEN Result("ConversionError", ds)
        ELSE IF scenario = "Larger" /\ insert_at_free_start
          THEN Result("Ok", set_free_start(d3, insertion_offset + len))
        ELSE Result("Ok", d3)

\* Page::update_internal once the old row is deleted, when it had to be
\* (del): the new row is written
update_write_row(d, del, old_row_slot_index, new_row, old_row_length, old_row_offset, scenario, planned) ==
    LET len == new_row.len
        d1 == del.data
        insertion_offset ==
            IF scenario # "Larger" THEN old_row_offset
            ELSE IF planned.kind = "Exact" THEN planned.pos
            ELSE get_free_start(d1)
        insert_at_free_start ==
            IF scenario # "Larger" THEN FALSE
            ELSE IF planned.kind = "Exact" THEN planned.pos = get_free_start(d)
            ELSE TRUE
    IN  IF del.res # "Ok" THEN del
        ELSE IF insertion_offset + len > PAGE_SIZE THEN Result("NotEnoughSpace", d1)
        ELSE update_slot_and_header(
               WriteBytes(d1, insertion_offset, len, new_row.bytes, 0),
               old_row_slot_index, len, scenario, insertion_offset, insert_at_free_start,
               get_free_space(d) + old_row_length - len)

\* Page::update_internal once the old slot is read and the offset of the new
\* row is planned
update_planned(d, old_row_slot_index, new_row, old_row_length, old_row_offset, planned) ==
    LET len == new_row.len
        current_free_space == get_free_space(d) + old_row_length
        scenario == update_scenario(len, old_row_length)
        relocate == scenario = "Larger" /\ planned.kind = "AfterCompactionFreeStart"
    IN  IF len > current_free_space THEN Result("NotEnoughSpace", d)
        ELSE update_write_row(d,
               IF relocate THEN delete_row_internal(d, old_row_slot_index, TRUE)
                           ELSE Result("Ok", d),
               old_row_slot_index, new_row, old_row_length, old_row_offset, scenario, planned)

\* Page::update_internal
update_internal(d, old_row_slot_index, new_row) ==
    IF ~SlotArrayOk(d) THEN Result("SlotRegionSizeMismatch", d)
    ELSE IF ~SlotInRange(d, old_row_slot_index) THEN Result("InvalidSlot", d)
    ELSE IF ~is_slot_valid(d, old_row_slot_index) THEN Result("InvalidSlot", d)
    ELSE update_planned(d, old_row_slot_index, new_row,
                        slot_length(d, old_row_slot_index),
                        slot_offset(d, old_row_slot_index),
                        find_insertion_offset(d, new_row.len, old_row_slot_index))

\* ------------------------------------------------------------------------
\* The page as a state machine: one Page, initialized, then a sequence of
\* plan_insert + insert_heap, delete_row and update_row calls.
\* ------------------------------------------------------------------------
VARIABLES
    data,         \* Page.data
    opCount,      \* number of calls made so far
    last,         \* the last call: its kind, arguments and result
    lastCompact   \* the page before and after the last completed compact()

pageVars == <<data, opCount, last, lastCompact>>

\* The buffer manager's state (its actions follow the page's properties)
VARIABLES
    page_map,     \* BufferManager.page_map: PageId -> entry, or None
    entries,      \* the PageEntry objects ever created, by identity
    frames,       \* BufferManager.frames: page_id, pin_count, dirty, contents
    pidLock,      \* holder of each frame's page_id RwLock, or None
    latch,        \* holders of each frame's page RwLock
    th,           \* each thread's position in its call, and its locals
    hist          \* what has happened: file reads, new pages, frames returned

bufVars == <<page_map, entries, frames, pidLock, latch, th, hist>>

\* A write guard's page on its way through the file manager into another
\* buffer pool
VARIABLES
    io            \* held: the PageId of the write guard the caller holds (its
                  \* page is data); file: InMemoryFileManager.pages; written:
                  \* the bytes each write_page call handed over; loaded: what
                  \* the last read_page of the other pool returned

\* The disk file manager and the threads inside its read_page / write_page
VARIABLES
    files,        \* DiskFileManager.files: FileId -> open file handle, or None
    filesLock,    \* holders of the RwLock around files, and whether it is poisoned
    fmc,          \* each caller's position in read_page / write_page
    fmHist        \* per file: OpenOptions::open calls made, handles used for I/O

diskVars == <<files, filesLock, fmc, fmHist>>
ioVars == <<io, diskVars>>
vars == <<pageVars, bufVars, ioVars>>

NumThreads == 3
NumFrames == 2
NumPages == 2

Threads == 1 .. NumThreads
Frames == 0 .. NumFrames - 1
Pages == 1 .. NumPages

\* PageState
Loading == [kind |-> "Loading", fid |-> None]
Ready(fid) == [kind |-> "Ready", fid |-> fid]

\* PageId::new(0, 0), the page_id of the Page of a frame never loaded
ZeroPageId == 0

\* BufferFrame::default(); content is what the frame's page bytes hold:
\* zeroes, the page `loaded` read in full, the remains of a read under
\* way or failed, or a page fresh from Page::initialize; page_page_id is
\* the page_id field of the frame's Page
BufferFrameDefault ==
    [page_id |-> None, pin_count |-> 0, dirty |-> FALSE,
     content |-> "zeroed", loaded |-> None, page_page_id |-> ZeroPageId]

Unlatched == [writer |-> None, readers |-> {}]

\* A thread that has not made its call
Idle ==
    [pc |-> "idle", op |-> "none", page |-> None, entry |-> None,
     frame_id |-> None, i |-> 0, result |-> "none", slept |-> FALSE]

\* BufferManager::new(file_manager, NumFrames), before any call
BufferManagerNew ==
    /\ page_map = [p \in Pages |-> None]
    /\ entries = << >>
    /\ frames = [f \in Frames |-> BufferFrameDefault]
    /\ pidLock = [f \in Frames |-> None]
    /\ latch = [f \in Frames |-> Unlatched]
    /\ th = [t \in Threads |-> Idle]
    /\ hist = [reads |-> [p \in Pages |-> 0],
               new_paged |-> [p \in Pages |-> FALSE],
               got |-> [p \in Pages |-> {}]]

NoCompact == [ran |-> FALSE, pre |-> new_zeroed, post |-> new_zeroed]
Compacted(pre, post) == [ran |-> TRUE, pre |-> pre, post |-> post]

\* What one completed run of compact() on page pre is remembered as
RanCompactAs(pre, c) == IF c.res = "Ok" THEN Compacted(pre, c.data) ELSE NoCompact
RanCompact(pre) == RanCompactAs(pre, compact(pre))

\* The k-th call writes rows whose bytes are k
NextFill == opCount + 1

NoRow == Vec(0, Const(0))
Op(kind, res, slot, row) == [op |-> kind, res |-> res, slot |-> slot, row |-> row]

\* A page fresh from Page::initialize
FreshPage ==
    /\ data = initialize(0, PT_UNSORTED)
    /\ opCount = 0
    /\ last = Op("initialize", "Ok", None, NoRow)
    /\ lastCompact = NoCompact

\* No page of the file manager
NoBytes == << >>

\* The other pool before its first read_page
NothingLoaded == [page |-> None, res |-> "none", data |-> new_zeroed, written_before |-> FALSE]

\* InMemoryFileManager::new, and no guard held
IoInit ==
    io = [held |-> None,
          file |-> [p \in Pages |-> NoBytes],
          written |-> [p \in Pages |-> NoBytes],
          loaded |-> NothingLoaded]

\* Threads that call the disk file manager, and the files of the catalog
NumCallers == 3
NumFiles == 2

Callers == 1 .. NumCallers
FileIds == 1 .. NumFiles

\* A thread outside the disk file manager
FmIdle == [pc |-> "idle", op |-> "none", file_id |-> None, file |-> None, path |-> "none"]

\* DiskFileManager::new: no file is open
DiskFileManagerNew ==
    /\ files = [f \in FileIds |-> None]
    /\ filesLock = [writer |-> None, readers |-> {}, poisoned |-> FALSE]
    /\ fmc = [c \in Callers |-> FmIdle]
    /\ fmHist = [opened |-> [f \in FileIds |-> 0], used |-> [f \in FileIds |-> {}]]

PageInit == FreshPage /\ BufferManagerNew /\ IoInit /\ DiskFileManagerNew

\* insert_heap(plan, bytes) returned r
Inserted(bytes, plan, r) ==
    /\ data' = r.data
    /\ last' = Op("insert_heap", r.res, IF plan.slot = New THEN get_slot_count(data) ELSE plan.slot,
                  bytes)
    /\ lastCompact' = IF plan.offset.kind = "AfterCompactionFreeStart"
                        THEN RanCompact(data) ELSE NoCompact

\* plan_insert(bytes.len()) returned plan
Planned(bytes, plan) ==
    IF plan.res # "Ok"
      THEN /\ data' = data
           /\ last' = Op("plan_insert", plan.res, None, bytes)
           /\ lastCompact' = NoCompact
      ELSE Inserted(bytes, plan, insert_row_unsorted_internal(data, plan, bytes))

\* plan_insert(bytes.len()) followed, when it returns a plan, by
\* insert_heap(plan, bytes)
InsertHeap(bytes) ==
    /\ opCount' = opCount + 1
    /\ Planned(bytes, plan_insert_internal(data, bytes.len))
    /\ UNCHANGED <<bufVars, ioVars>>

\* delete_row returned r; pre is the page before its compaction step
Deleted(slot_index, compact_requested, pre, r) ==
    /\ data' = r.data
    /\ last' = Op("delete_row", r.res, slot_index, NoRow)
    /\ lastCompact' = IF pre.res = "Ok" /\ compact_requested
                        THEN RanCompact(pre.data) ELSE NoCompact

\* delete_row(slot_index, compact_requested)
DeleteRow(slot_index, compact_requested) ==
    /\ opCount' = opCount + 1
    /\ Deleted(slot_index, compact_requested, delete_before_compact(data, slot_index),
               delete_row_internal(data, slot_index, compact_requested))
    /\ UNCHANGED <<bufVars, ioVars>>

\* update_row(slot_index, new_row) deletes the old row and compacts the page
UpdateRelocates(slot_index, new_row) ==
    /\ SlotArrayOk(data) /\ SlotInRange(data, slot_index)
    /\ is_slot_valid(data, slot_index)
    /\ new_row.len <= get_free_space(data) + slot_length(data, slot_index)
    /\ new_row.len > slot_length(data, slot_index)
    /\ find_insertion_offset(data, new_row.len, slot_index).kind
          = "AfterCompactionFreeStart"

\* update_row returned r; pre is the page before the compaction step of the
\* delete it made, if it made one
Updated(slot_index, new_row, pre, r) ==
    /\ data' = r.data
    /\ last' = Op("update_row", r.res, slot_index, new_row)
    /\ lastCompact' = IF UpdateRelocates(slot_index, new_row) /\ pre.res = "Ok"
                        THEN RanCompact(pre.data) ELSE NoCompact

\* update_row(slot_index, new_row)
UpdateRow(slot_index, new_row) ==
    /\ opCount' = opCount + 1
    /\ Updated(slot_index, new_row, delete_before_compact(data, slot_index),
               update_internal(data, slot_index, new_row))
    /\ UNCHANGED <<bufVars, ioVars>>

\* The rows and slot indexes offered to the calls
PageRows == {FillRow(n, NextFill) : n \in RowLens}
SlotIndexes == {i \in 0 .. MaxSlotIndex : i <= get_slot_count(data)}

PageNext ==
    \/ \E bytes \in PageRows : opCount < MaxOps /\ InsertHeap(bytes)
    \/ \E i \in SlotIndexes, c \in BOOLEAN : opCount < MaxOps /\ DeleteRow(i, c)
    \/ \E i \in SlotIndexes, new_row \in PageRows : opCount < MaxOps /\ UpdateRow(i, new_row)

PageSpec == PageInit /\ [][PageNext]_vars

\* ------------------------------------------------------------------------
\* The same calls on a page that already holds a row written over by its
\* own slot entry.  The page is the one reached from Page::initialize by
\* inserting two rows, shrinking the second and inserting a row as long as
\* the contiguous free area, which leaves no room for the row's new slot
\* entry.
\* ------------------------------------------------------------------------
\* plan_insert followed by insert_heap, as a function of the page
InsertAsPlanned(d, plan, bytes) ==
    IF plan.res = "Ok" THEN insert_row_unsorted_internal(d, plan, bytes).data ELSE d
PlanAndInsert(d, bytes) == InsertAsPlanned(d, plan_insert_internal(d, bytes.len), bytes)

ShrunkPage ==
    LET p0 == initialize(0, PT_UNSORTED)
        p1 == PlanAndInsert(p0, FillRow(1, 11))
        p2 == PlanAndInsert(p1, FillRow(1000, 12))
    IN  update_internal(p2, 1, FillRow(1, 13)).data

\* free_end - free_start: the longest row that find_insertion_offset places
\* at free_start
ContiguousFree(p) == get_free_end(p) - get_free_start(p)
OverlapLen == ContiguousFree(ShrunkPage)

\* p after the insert of a row of v as long as its contiguous free area
FillContiguous(p, v) == PlanAndInsert(p, FillRow(ContiguousFree(p), v))
OverlappedPage == FillContiguous(ShrunkPage, 14)

\* The three bytes that, written over the low end of a slot entry, make it
\* read as offset `off` and a length whose low byte is 0
EntryBytes(off) == <<off % 256, off \div 256, 0>>

\* Offsets the last bytes of a row of n bytes can spell out: that of the
\* free_end field, and the one from which a row of 256 * (n \div 256) bytes
\* ends one byte into the entry of slot 1
Trailers(n) ==
    {EntryBytes(FREE_END), EntryBytes(CellStart(1) + 1 - 256 * (n \div 256))}

\* Rows of v of 1 and of n bytes, and rows of n bytes ending in a trailer
RowsUpTo(n, v) ==
    {FillRow(m, v) : m \in {1, n}} \cup {TrailerRow(n, v, t) : t \in Trailers(n)}

OverlapRows == RowsUpTo(OverlapLen, NextFill)

OverlapInit ==
    /\ data = OverlappedPage
    /\ opCount = 0
    /\ last = Op("insert_heap", "Ok", 2, FillRow(OverlapLen, 14))
    /\ lastCompact = NoCompact
    /\ BufferManagerNew
    /\ IoInit
    /\ DiskFileManagerNew

OverlapNext ==
    \/ \E bytes \in OverlapRows : opCount < OverlapOps /\ InsertHeap(bytes)
    \/ \E i \in SlotIndexes, c \in BOOLEAN : opCount < OverlapOps /\ DeleteRow(i, c)
    \/ \E i \in SlotIndexes, new_row \in OverlapRows :
          opCount < OverlapOps /\ UpdateRow(i, new_row)

OverlapSpec == OverlapInit /\ [][OverlapNext]_vars

\* ------------------------------------------------------------------------
\* Properties of the page
\* ------------------------------------------------------------------------
\* Logical indices of the valid slots of p
ValidSlots(p) == {i \in 0 .. get_slot_count(p) - 1 : is_slot_valid(p, i)}

\* Sum of the lengths of the valid rows of slots i .. slot_count-1
RECURSIVE SumValidLens(_, _)
SumValidLens(p, i) ==
    IF i >= get_slot_count(p) THEN 0
    ELSE (IF is_slot_valid(p, i) THEN slot_length(p, i) ELSE 0) + SumValidLens(p, i + 1)

\* C1: after plan_insert(len(b)) returned a plan and insert_heap(plan, b)
\* succeeded, row(i) on the slot index the plan used returns exactly b.
InsertRoundTrip ==
    (last.op = "insert_heap" /\ last.res = "Ok") =>
        LET r == read_row_internal(data, last.slot)
        IN  r.res = "Ok" /\ r.len = last.row.len /\ r.bytes = last.row.bytes

\* C2: the byte ranges [offset, offset+length) of any two distinct valid
\* slots are disjoint.
ValidSlotsDisjoint ==
    \A i, j \in ValidSlots(data) :
        i # j => \/ slot_offset(data, i) + slot_length(data, i) <= slot_offset(data, j)
                 \/ slot_offset(data, j) + slot_length(data, j) <= slot_offset(data, i)

\* C4: every valid slot (o, l) satisfies 96 <= o and o + l <= free_start.
ValidSlotsBelowFreeStart ==
    \A i \in ValidSlots(data) :
        /\ HEADER_SIZE <= slot_offset(data, i)
        /\ slot_offset(data, i) + slot_length(data, i) <= get_free_start(data)

\* C5: 96 <= free_start <= free_end + 1.
FreeAreaNotNegative ==
    /\ HEADER_SIZE <= get_free_start(data)
    /\ get_free_start(data) <= get_free_end(data) + 1

\* C6: free_end + 1 + 4*slot_count == 4096: the slot array occupies exactly
\* the last 4*slot_count bytes of the page.
SlotArrayAtPageEnd ==
    get_free_end(data) + 1 + SLOT_SIZE * get_slot_count(data) = PAGE_SIZE

\* C7: the lengths of all valid rows plus free_space plus 4*slot_count add
\* up to PAGE_SIZE - HEADER_SIZE after any sequence of operations.
Accounting ==
    SumValidLens(data, 0) + get_free_space(data) + SLOT_SIZE * get_slot_count(data)
        = PAGE_SIZE - HEADER_SIZE

\* C8: row(i) returns the same bytes immediately before and immediately
\* after compact() for every valid slot i, and the set of valid slot indices
\* is unchanged.
CompactionEquivalence ==
    lastCompact.ran =>
        /\ ValidSlots(lastCompact.pre) = ValidSlots(lastCompact.post)
        /\ \A i \in ValidSlots(lastCompact.pre) :
              read_row_internal(lastCompact.post, i) = read_row_internal(lastCompact.pre, i)

\* ------------------------------------------------------------------------
\* The buffer manager: NumThreads threads calling read_page, read_page_mut
\* and allocate_new_page on one BufferManager of NumFrames frames.  A step
\* is one access to shared state.  A section that runs under page_map's
\* lock or under a PageEntry's state mutex touches nothing but what the lock
\* protects, so it is one step.
\* ------------------------------------------------------------------------
Holds(t, f) == latch[f].writer = t \/ t \in latch[f].readers

\* read_page takes a read latch; read_page_mut and allocate_new_page a
\* write latch
CanAcquire(f, op) ==
    IF op = "read_page"
      THEN latch[f].writer = None
      ELSE latch[f].writer = None /\ latch[f].readers = {}

Acquire(t, f, op) ==
    IF op = "read_page"
      THEN [latch EXCEPT ![f] = [writer |-> latch[f].writer,
                                 readers |-> latch[f].readers \cup {t}]]
      ELSE [latch EXCEPT ![f] = [writer |-> t, readers |-> latch[f].readers]]

Release(t, f) ==
    [latch EXCEPT ![f] =
        [writer  |-> IF latch[f].writer = t THEN None ELSE latch[f].writer,
         readers |-> latch[f].readers \ {t}]]

\* Every thread makes one call, and the threads are numbered in the order
\* their calls start: a thread that calls again once its guard is dropped
\* is the next thread
CanCall(t) == th[t] = Idle /\ (IF t = 1 THEN TRUE ELSE th[t - 1] # Idle)

\* A thread entering a call
Entering(op, p, pc) == [Idle EXCEPT !.pc = pc, !.op = op, !.page = p]

read_page(t, p) ==
    /\ CanCall(t)
    /\ th' = [th EXCEPT ![t] = Entering("read_page", p, "probe")]
    /\ UNCHANGED <<page_map, entries, frames, pidLock, latch, hist, pageVars, ioVars>>

read_page_mut(t, p) ==
    /\ CanCall(t)
    /\ th' = [th EXCEPT ![t] = Entering("read_page_mut", p, "probe")]
    /\ UNCHANGED <<page_map, entries, frames, pidLock, latch, hist, pageVars, ioVars>>

allocate_new_page(t, p) ==
    /\ CanCall(t)
    /\ th' = [th EXCEPT ![t] = Entering("new_page", p, "claim_try")]
    /\ hist' = [hist EXCEPT !.new_paged[p] = TRUE]
    /\ UNCHANGED <<page_map, entries, frames, pidLock, latch, pageVars, ioVars>>

\* get_or_load_buffered_page: the look-up under the map's read lock
ProbeMap(t) ==
    /\ th[t].pc = "probe"
    /\ th' = [th EXCEPT ![t] =
                IF page_map[th[t].page] # None
                  THEN [@ EXCEPT !.pc = "wait", !.entry = page_map[th[t].page]]
                  ELSE [@ EXCEPT !.pc = "recheck"]]
    /\ UNCHANGED <<page_map, entries, frames, pidLock, latch, hist, pageVars, ioVars>>

\* An entry inserted as Ready for the first frame, before any frame is
\* claimed or filled
NewEntryReady(p, t) == [page |-> p, state |-> Ready(0), loader |-> t, failed |-> FALSE]

\* The entry a loader inserts: Loading, nobody's frame yet
NewEntry(p, t) == [page |-> p, state |-> Loading, loader |-> t, failed |-> FALSE]

\* Every thread that missed under the read lock declares itself the loader
AlwaysLoader(existing) == TRUE

\* is_loader_thread, from what the map holds under the write lock
IsLoaderThread(existing) == existing = None

\* get_or_load_buffered_page: the second look-up, under the map's write
\* lock, and the insertion of a Loading entry
InsertIfAbsent(t) ==
    LET p == th[t].page IN
    /\ th[t].pc = "recheck"
    /\ IF IsLoaderThread(page_map[p])
         THEN /\ entries' = Append(entries, NewEntry(p, t))
              /\ page_map' = [page_map EXCEPT ![p] = Len(entries) + 1]
              /\ th' = [th EXCEPT ![t] = [@ EXCEPT !.pc = "claim_try",
                                                   !.entry = Len(entries) + 1,
                                                   !.i = 0]]
         ELSE /\ th' = [th EXCEPT ![t] = [@ EXCEPT !.pc = "wait",
                                                   !.entry = page_map[p]]]
              /\ UNCHANGED <<entries, page_map>>
    /\ UNCHANGED <<frames, pidLock, latch, hist, pageVars, ioVars>>

\* A wait that builds the guard of a Ready entry with the state mutex
\* still held
WaitAndLatch(t) ==
    LET st == entries[th[t].entry].state IN
    /\ th[t].pc = "wait"
    /\ IF st.kind = "Ready"
         THEN /\ CanAcquire(st.fid, th[t].op)
              /\ latch' = Acquire(t, st.fid, th[t].op)
              /\ th' = [th EXCEPT ![t] = [@ EXCEPT !.pc = "holding", !.frame_id = st.fid,
                                                   !.result = "Ok"]]
              /\ hist' = [hist EXCEPT !.got[th[t].page] = @ \cup {st.fid}]
         ELSE /\ th' = [th EXCEPT ![t] = [@ EXCEPT !.pc = "sleeping", !.slept = TRUE]]
              /\ UNCHANGED <<latch, hist>>
    /\ UNCHANGED <<page_map, entries, frames, pidLock, pageVars, ioVars>>

\* wait_until_ready: with the state mutex held, return the frame of a Ready
\* entry, or give the mutex up and block on cond_var
WaitUntilReady(t) ==
    LET st == entries[th[t].entry].state IN
    /\ th[t].pc = "wait"
    /\ th' = [th EXCEPT ![t] =
                IF st.kind = "Ready"
                  THEN [@ EXCEPT !.pc = "make_guard", !.frame_id = st.fid]
                  ELSE [@ EXCEPT !.pc = "sleeping", !.slept = TRUE]]
    /\ UNCHANGED <<page_map, entries, frames, pidLock, latch, hist, pageVars, ioVars>>

\* Condvar::wait may return without a notification; the loop looks again
SpuriousWakeup(t) ==
    /\ th[t].pc = "sleeping"
    /\ th' = [th EXCEPT ![t] = [@ EXCEPT !.pc = "wait"]]
    /\ UNCHANGED <<page_map, entries, frames, pidLock, latch, hist, pageVars, ioVars>>

\* make_guard(self, fid) of a thread that waited: blocks until the latch
\* is free, then the call returns the guard
ReturnGuard(t) ==
    LET f == th[t].frame_id IN
    /\ th[t].pc = "make_guard"
    /\ CanAcquire(f, th[t].op)
    /\ latch' = Acquire(t, f, th[t].op)
    /\ th' = [th EXCEPT ![t] = [@ EXCEPT !.pc = "holding", !.result = "Ok"]]
    /\ hist' = [hist EXCEPT !.got[th[t].page] = @ \cup {f}]
    /\ UNCHANGED <<page_map, entries, frames, pidLock, pageVars, ioVars>>

\* A thread whose call has returned and whose guard, if any, is gone
Returned(result) == [Idle EXCEPT !.result = result]

\* The entry of a loader whose call returned an error stays Loading
Failed(e) == [entries EXCEPT ![e] = [@ EXCEPT !.failed = TRUE]]

\* claim_free_frame: try_write on the page_id of frame i; a held lock is
\* skipped, the end of the frames is None, which the callers turn into
\* BufferFull
ClaimTryWrite(t) ==
    LET i == th[t].i IN
    /\ th[t].pc = "claim_try"
    /\ IF i = NumFrames
         THEN /\ th' = [th EXCEPT ![t] = Returned("BufferFull")]
              /\ entries' = IF th[t].entry = None THEN entries
                            ELSE Failed(th[t].entry)
              /\ UNCHANGED pidLock
         ELSE IF pidLock[i] # None
           THEN /\ th' = [th EXCEPT ![t] = [@ EXCEPT !.i = i + 1]]
                /\ UNCHANGED <<entries, pidLock>>
           ELSE /\ th' = [th EXCEPT ![t] = [@ EXCEPT !.pc = "claim_check"]]
                /\ pidLock' = [pidLock EXCEPT ![i] = t]
                /\ UNCHANGED entries
    /\ UNCHANGED <<page_map, frames, latch, hist, pageVars, ioVars>>

\* A scan that claims the first frame whose page_id lock it gets, whatever
\* the frame holds
ClaimAnyFrame(t) ==
    LET i == th[t].i IN
    /\ th[t].pc = "claim_check"
    /\ pidLock' = [pidLock EXCEPT ![i] = None]
    /\ frames' = [frames EXCEPT ![i] =
                     [@ EXCEPT !.page_id = th[t].page, !.pin_count = 1, !.dirty = FALSE]]
    /\ th' = [th EXCEPT ![t] =
                [@ EXCEPT !.frame_id = i,
                          !.pc = IF th[t].op = "new_page" THEN "new_insert" ELSE "load_lock"]]
    /\ UNCHANGED <<page_map, entries, latch, hist, pageVars, ioVars>>

\* claim_free_frame: with the page_id lock of frame i held, claim the frame
\* when its page_id is None, else go on to the next frame
ClaimCheck(t) ==
    LET i == th[t].i IN
    /\ th[t].pc = "claim_check"
    /\ pidLock' = [pidLock EXCEPT ![i] = None]
    /\ IF frames[i].page_id = None
         THEN /\ frames' = [frames EXCEPT ![i] =
                              [@ EXCEPT !.page_id = th[t].page,
                                        !.pin_count = 1,
                                        !.dirty = FALSE]]
              /\ th' = [th EXCEPT ![t] =
                          [@ EXCEPT !.frame_id = i,
                                    !.pc = IF th[t].op = "new_page"
                                             THEN "new_insert" ELSE "load_lock"]]
         ELSE /\ th' = [th EXCEPT ![t] = [@ EXCEPT !.pc = "claim_try", !.i = i + 1]]
              /\ UNCHANGED frames
    /\ UNCHANGED <<page_map, entries, latch, hist, pageVars, ioVars>>

\* The loader's frames[frame_id].page.write()
LoaderLockPage(t) ==
    LET f == th[t].frame_id IN
    /\ th[t].pc = "load_lock"
    /\ CanAcquire(f, "read_page_mut")
    /\ latch' = Acquire(t, f, "read_page_mut")
    /\ th' = [th EXCEPT ![t] = [@ EXCEPT !.pc = "load_read"]]
    /\ UNCHANGED <<page_map, entries, frames, pidLock, hist, pageVars, ioVars>>

\* file_manager.read_page(page_id, page.data_mut()) starts writing the bytes
FileReadBegin(t) ==
    LET f == th[t].frame_id IN
    /\ th[t].pc = "load_read"
    /\ frames' = [frames EXCEPT ![f] = [@ EXCEPT !.content = "partial",
                                                 !.loaded = None]]
    /\ hist' = [hist EXCEPT !.reads[th[t].page] = @ + 1]
    /\ th' = [th EXCEPT ![t] = [@ EXCEPT !.pc = "reading"]]
    /\ UNCHANGED <<page_map, entries, pidLock, latch, pageVars, ioVars>>

\* file_manager.read_page returns: true with the whole page in the frame,
\* after which set_page_id runs and the write lock is given up, or false
FileReadEnd(t, ok) ==
    LET f == th[t].frame_id IN
    /\ th[t].pc = "reading"
    /\ IF ok
         THEN /\ frames' = [frames EXCEPT ![f] = [@ EXCEPT !.content = "whole",
                                                      !.loaded = th[t].page,
                                                      !.page_page_id = th[t].page]]
              /\ latch' = Release(t, f)
              /\ th' = [th EXCEPT ![t] = [@ EXCEPT !.pc = "loader_guard"]]
         ELSE /\ th' = [th EXCEPT ![t] = [@ EXCEPT !.pc = "rollback"]]
              /\ UNCHANGED <<frames, latch>>
    /\ UNCHANGED <<page_map, entries, pidLock, hist, pageVars, ioVars>>

\* A return of IoReadFailed that leaves the frame claimed
ReturnWithoutRollback(t) ==
    LET f == th[t].frame_id IN
    /\ th[t].pc = "rollback"
    /\ pidLock[f] = None
    /\ latch' = Release(t, f)
    /\ entries' = Failed(th[t].entry)
    /\ th' = [th EXCEPT ![t] = Returned("IoReadFailed")]
    /\ UNCHANGED <<page_map, frames, pidLock, hist, pageVars, ioVars>>

\* The rollback of the claim after a failed read, and the return of
\* IoReadFailed, which gives the write lock up
RollbackClaim(t) ==
    LET f == th[t].frame_id IN
    /\ th[t].pc = "rollback"
    /\ pidLock[f] = None
    /\ frames' = [frames EXCEPT ![f] = [@ EXCEPT !.page_id = None]]
    /\ latch' = Release(t, f)
    /\ entries' = Failed(th[t].entry)
    /\ th' = [th EXCEPT ![t] = Returned("IoReadFailed")]
    /\ UNCHANGED <<page_map, pidLock, hist, pageVars, ioVars>>

\* A loader that goes on to publish without building its guard
LoaderSkipsGuard(t) ==
    /\ th[t].pc = "loader_guard"
    /\ th' = [th EXCEPT ![t] = [@ EXCEPT !.pc = "publish"]]
    /\ UNCHANGED <<page_map, entries, frames, pidLock, latch, hist, pageVars, ioVars>>

\* The loader's make_guard(self, frame_id), once the frame is filled
LoaderMakeGuard(t) ==
    LET f == th[t].frame_id IN
    /\ th[t].pc = "loader_guard"
    /\ CanAcquire(f, th[t].op)
    /\ latch' = Acquire(t, f, th[t].op)
    /\ th' = [th EXCEPT ![t] = [@ EXCEPT !.pc = "publish"]]
    /\ UNCHANGED <<page_map, entries, frames, pidLock, hist, pageVars, ioVars>>

\* A publication that wakes nobody
NotifiedNobody(e) == {}

\* The threads cond_var.notify_all() wakes: those blocked on entry e
Notified(e) == {u \in Threads : th[u].pc = "sleeping" /\ th[u].entry = e}

\* The loader, with the state mutex held, sets Ready(frame_id) and notifies
\* all waiters; its call returns the guard
PublishReady(t) ==
    LET e == th[t].entry
        f == th[t].frame_id
    IN
    /\ th[t].pc = "publish"
    /\ entries' = [entries EXCEPT ![e] = [@ EXCEPT !.state = Ready(f)]]
    /\ th' = [u \in Threads |->
                IF u = t THEN [th[t] EXCEPT !.pc = "holding", !.result = "Ok"]
                ELSE IF u \in Notified(e) THEN [th[u] EXCEPT !.pc = "wait"]
                ELSE th[u]]
    /\ hist' = [hist EXCEPT !.got[th[t].page] = @ \cup {f}]
    /\ UNCHANGED <<page_map, frames, pidLock, latch, pageVars, ioVars>>

\* An allocate_new_page that takes the write latch of the frame before it
\* gives up the map's write lock
InsertAndLatch(t) ==
    LET p == th[t].page
        f == th[t].frame_id IN
    /\ th[t].pc = "new_insert"
    /\ CanAcquire(f, th[t].op)
    /\ latch' = Acquire(t, f, th[t].op)
    /\ entries' = Append(entries, [page |-> p, state |-> Ready(f),
                                   loader |-> None, failed |-> FALSE])
    /\ page_map' = [page_map EXCEPT ![p] = Len(entries) + 1]
    /\ th' = [th EXCEPT ![t] = [@ EXCEPT !.pc = "holding", !.result = "Ok"]]
    /\ UNCHANGED <<frames, pidLock, hist, pageVars, ioVars>>

\* allocate_new_page: under the map's write lock, insert a Ready entry for
\* the claimed frame, replacing any entry the page has
NewPageInsert(t) ==
    LET p == th[t].page IN
    /\ th[t].pc = "new_insert"
    /\ entries' = Append(entries, [page |-> p, state |-> Ready(th[t].frame_id),
                                   loader |-> None, failed |-> FALSE])
    /\ page_map' = [page_map EXCEPT ![p] = Len(entries) + 1]
    /\ th' = [th EXCEPT ![t] = [@ EXCEPT !.pc = "new_guard"]]
    /\ UNCHANGED <<frames, pidLock, latch, hist, pageVars, ioVars>>

\* allocate_new_page: write_guard_from_frame(frame_id), and the return
NewPageGuard(t) ==
    LET f == th[t].frame_id IN
    /\ th[t].pc = "new_guard"
    /\ CanAcquire(f, th[t].op)
    /\ latch' = Acquire(t, f, th[t].op)
    /\ th' = [th EXCEPT ![t] = [@ EXCEPT !.pc = "holding", !.result = "Ok"]]
    /\ UNCHANGED <<page_map, entries, frames, pidLock, hist, pageVars, ioVars>>

\* The caller of new_page initializes the page through its write guard:
\* Page::initialize zeroes the bytes and resets the header
InitializeNewPage(t) ==
    LET f == th[t].frame_id IN
    /\ th[t].pc = "holding" /\ th[t].op = "new_page"
    /\ frames[f].content # "initialized"
    /\ frames' = [frames EXCEPT ![f] = [@ EXCEPT !.content = "initialized",
                                                 !.loaded = None]]
    /\ UNCHANGED <<page_map, entries, pidLock, latch, th, hist, pageVars, ioVars>>

\* The caller drops the guard it was returned
DropGuard(t) ==
    /\ th[t].pc = "holding"
    /\ latch' = Release(t, th[t].frame_id)
    /\ th' = [th EXCEPT ![t] = Returned("Ok")]
    /\ UNCHANGED <<page_map, entries, frames, pidLock, hist, pageVars, ioVars>>

\* One step of thread t inside a call, or the drop of its guard
Run(t) ==
    \/ ProbeMap(t)
    \/ InsertIfAbsent(t)
    \/ WaitUntilReady(t)
    \/ ReturnGuard(t)
    \/ ClaimTryWrite(t)
    \/ ClaimCheck(t)
    \/ LoaderLockPage(t)
    \/ FileReadBegin(t)
    \/ \E ok \in BOOLEAN : FileReadEnd(t, ok)
    \/ RollbackClaim(t)
    \/ LoaderMakeGuard(t)
    \/ PublishReady(t)
    \/ NewPageInsert(t)
    \/ NewPageGuard(t)
    \/ InitializeNewPage(t)
    \/ DropGuard(t)

BufInit == PageInit

BufNext ==
    \/ \E t \in Threads, p \in Pages : read_page(t, p)
    \/ \E t \in Threads, p \in Pages : read_page_mut(t, p)
    \/ \E t \in Threads, p \in Pages : allocate_new_page(t, p)
    \/ \E t \in Threads : SpuriousWakeup(t)
    \/ \E t \in Threads : Run(t)

BufSpec == BufInit /\ [][BufNext]_vars

\* The pages the threads of the fair specification contend for
HotPages == {p \in Pages : p = 1}

HotNext ==
    \/ \E t \in Threads, p \in HotPages : read_page(t, p)
    \/ \E t \in Threads, p \in HotPages : read_page_mut(t, p)
    \/ \E t \in Threads, p \in HotPages : allocate_new_page(t, p)
    \/ \E t \in Threads : SpuriousWakeup(t)
    \/ \E t \in Threads : Run(t)

\* The pages no call of the specification below allocates
ColdPages == Pages \ HotPages

\* The pool once a new_page call for the first hot page has returned and
\* its guard has been dropped: frame 0 is claimed for that page
OneFrameClaimed ==
    /\ page_map = [p \in Pages |-> IF p = 1 THEN 1 ELSE None]
    /\ entries = <<[page |-> 1, state |-> Ready(0), loader |-> None, failed |-> FALSE]>>
    /\ frames = [f \in Frames |->
                   IF f = 0 THEN [BufferFrameDefault EXCEPT !.page_id = 1, !.pin_count = 1]
                            ELSE BufferFrameDefault]
    /\ pidLock = [f \in Frames |-> None]
    /\ latch = [f \in Frames |-> Unlatched]
    /\ th = [t \in Threads |-> Idle]
    /\ hist = [reads |-> [p \in Pages |-> 0],
               new_paged |-> [p \in Pages |-> p = 1],
               got |-> [p \in Pages |-> {}]]

PressureInit == FreshPage /\ OneFrameClaimed /\ IoInit /\ DiskFileManagerNew

\* Calls on a pool under pressure: pages are read that no call allocates
PressureNext ==
    \/ \E t \in Threads, p \in ColdPages : read_page(t, p)
    \/ \E t \in Threads, p \in ColdPages : read_page_mut(t, p)
    \/ \E t \in Threads, p \in HotPages : allocate_new_page(t, p)
    \/ \E t \in Threads : SpuriousWakeup(t)
    \/ \E t \in Threads : Run(t)

PressureSpec ==
    PressureInit /\ [][PressureNext]_vars /\ \A t \in Threads : WF_vars(Run(t))

\* The scheduler lets every thread that can take a step take one, and
\* every guard handed out is dropped; new calls and spurious wake-ups are
\* not owed
BufFairSpec == BufInit /\ [][HotNext]_vars /\ \A t \in Threads : WF_vars(Run(t))

\* ------------------------------------------------------------------------
\* Properties of the buffer manager
\* ------------------------------------------------------------------------
\* Positions of a loader that has claimed its frame and not yet published
\* Ready
LoaderPcs == {"load_lock", "load_read", "reading", "rollback", "loader_guard", "publish"}

\* The threads loading a page into frame f
BeingLoaded(f) == {l \in Threads : th[l].frame_id = f /\ th[l].pc \in LoaderPcs}

\* Thread t went through wait_until_ready on an entry another thread loads
WaitedFor(t) ==
    /\ th[t].entry # None
    /\ entries[th[t].entry].loader # None
    /\ entries[th[t].entry].loader # t

\* C3: for a page p reached only through read_page and read_page_mut, in
\* every interleaving the file manager's read_page(p) is invoked at most
\* once, exactly once when a guard for p has been returned, and all the
\* guards returned for p refer to the same frame.
SingleLoader ==
    \A p \in Pages :
        ~hist.new_paged[p] =>
            /\ hist.reads[p] <= 1
            /\ Cardinality(hist.got[p]) <= 1
            /\ hist.got[p] # {} => hist.reads[p] = 1

\* C3 witness: two threads hold guards on the same frame for a page that
\* was read from the file once
TwoGuardsOneRead ==
    \E p \in Pages, t, u \in Threads :
        /\ t # u /\ ~hist.new_paged[p] /\ hist.reads[p] = 1
        /\ th[t].pc = "holding" /\ th[u].pc = "holding"
        /\ th[t].page = p /\ th[u].page = p
        /\ th[t].frame_id = th[u].frame_id

\* C9: a thread that is not the loader holds no latch on a frame while
\* that frame is being loaded, from the claim to the publication of Ready;
\* a thread that waited for another thread's load holds its latch on the
\* frame the entry is Ready for, and the frame holds the whole page.
LatchAfterReady ==
    \A t \in Threads, f \in Frames :
        Holds(t, f) =>
            /\ BeingLoaded(f) \subseteq {t}
            /\ WaitedFor(t) =>
                  /\ entries[th[t].entry].state = Ready(f)
                  /\ frames[f].content = "whole"
                  /\ frames[f].loaded = th[t].page

\* C9 witness: a thread that blocked while another thread was loading the
\* page holds the write latch on the loaded frame
WaiterHoldsWriteLatch ==
    \E t \in Threads :
        /\ th[t].pc = "holding" /\ WaitedFor(t) /\ th[t].slept
        /\ latch[th[t].frame_id].writer = t

\* A thread inside wait_until_ready, about to look at the state or blocked
Waiting(t) == th[t].pc \in {"wait", "sleeping"}

\* Thread t has the latch on the frame its entry is Ready for
Served(t) ==
    /\ th[t].pc = "holding"
    /\ th[t].entry # None
    /\ entries[th[t].entry].state = Ready(th[t].frame_id)
    /\ Holds(t, th[t].frame_id)

\* The loader of t's entry returned BufferFull or IoReadFailed
LoadFailed(t) == th[t].entry # None /\ entries[th[t].entry].failed

\* C10: under fair scheduling, with every guard eventually dropped, every
\* thread in wait_until_ready on an entry whose loader's frame claim and
\* file read succeed eventually returns the loader's frame id and obtains
\* its latch, whether it began to wait before or after Ready was published.
WaitersAreServed ==
    \A t \in Threads : Waiting(t) ~> (Served(t) \/ LoadFailed(t))

\* C10 witness: of two threads holding latches on a frame another thread
\* loaded, one blocked on cond_var and the other found the entry Ready
EarlyAndLateWaiterServed ==
    \E t, u \in Threads :
        /\ Served(t) /\ WaitedFor(t) /\ th[t].slept
        /\ Served(u) /\ WaitedFor(u) /\ ~th[u].slept
        /\ th[t].entry = th[u].entry

\* Thread t has started a call that has not yet returned
InCall(t) == th[t].pc \notin {"idle", "holding"}

\* C11: under fair scheduling, with every guard eventually dropped, every
\* read_page, read_page_mut and new_page call that has started eventually
\* returns a guard or an error (BufferFull, IoReadFailed): no call blocks
\* forever.
CallsReturn == \A t \in Threads : InCall(t) ~> ~InCall(t)

\* Every frame of the pool is claimed
AllClaimed == \A f \in Frames : frames[f].page_id # None

\* Thread t has just started a call that has to claim a frame: a new_page
\* call, or a read of a page that no frame is claimed for
StartsLoad(t) ==
    \/ th[t].op = "new_page" /\ th[t].pc = "claim_try" /\ th[t].i = 0
    \/ th[t].pc = "probe" /\ \A f \in Frames : frames[f].page_id # th[t].page

\* C12: a read_page / read_page_mut call for a page resident in no frame,
\* and a new_page call, started when every frame of the pool is claimed,
\* returns BufferFull (unless a frame is given back in the meantime).
FullPoolFails ==
    \A t \in Threads :
        (StartsLoad(t) /\ AllClaimed) ~> (th[t].result = "BufferFull" \/ ~AllClaimed)

\* row(slot_index) gives the bytes of a row only when the slot holds one
RowReadOk(d, slot_index, r) ==
    /\ slot_index \notin ValidSlots(d) => r.res = "InvalidSlot"
    /\ r.res = "Ok" => slot_index \in ValidSlots(d)

\* C13: row(i) fails with InvalidSlot whenever i >= slot_count and whenever
\* slot i is invalid (deleted); it returns row bytes only for valid slots.
RowOnlyOfValidSlot ==
    \A i \in 0 .. MaxSlotIndex + 1 : RowReadOk(data, i, read_row_internal(data, i))

\* The step is a delete_row call on a slot index that holds no row
DeletesInvalidSlot ==
    /\ opCount' = opCount + 1
    /\ last'.op = "delete_row"
    /\ last'.slot \notin ValidSlots(data)

\* C14: delete_row(i, compact) on an index i >= slot_count or on an invalid
\* slot (a second delete of the same slot included) fails with InvalidSlot
\* and leaves the header (free_start, free_space, can_compact, slot_count)
\* and every slot entry as they were.
InvalidDeleteRejected ==
    [][DeletesInvalidSlot =>
          /\ last'.res = "InvalidSlot"
          /\ data'.hdr = data.hdr
          /\ data'.slots = data.slots]_vars

\* A slot that was deleted has been deleted again, on a page that still
\* holds a row and has a hole to compact
SecondDeleteRejected ==
    /\ last.op = "delete_row" /\ last.res = "InvalidSlot"
    /\ last.slot < get_slot_count(data)
    /\ ValidSlots(data) # {}
    /\ get_can_compact(data) = 1

\* Thread t holds the guard its call returned and, after new_page, has
\* initialized the page
HoldsGuard(t) ==
    /\ th[t].pc = "holding"
    /\ th[t].op = "new_page" => frames[th[t].frame_id].content = "initialized"

\* C15: every guard handed out for PageId p, by new_page(p) followed by
\* initialize(p, t), by read_page(p) or by read_page_mut(p), on a cold load
\* or a cache hit, dereferences to a Page whose page_id() is p.
GuardPageIdMatches ==
    \A t \in Threads :
        HoldsGuard(t) => frames[th[t].frame_id].page_page_id = th[t].page

\* ------------------------------------------------------------------------
\* A page written through the storage facade and loaded by another pool
\* that shares the file manager
\* ------------------------------------------------------------------------
\* Calls made on a page between new_page and write_page
IoOps == 2

\* A file manager that keeps every page under the first PageId
WriteToFirstPage(pages, page_id, page_data) ==
    [pages EXCEPT ![1] = Slice(page_data, 0, PAGE_SIZE)]

\* InMemoryFileManager::write_page: a copy of page_data is kept under
\* page_id
fm_write_page(pages, page_id, page_data) ==
    [pages EXCEPT ![page_id] = Slice(page_data, 0, PAGE_SIZE)]

\* InMemoryFileManager::read_page: [ok, destination]
fm_read_page(pages, page_id, destination) ==
    IF pages[page_id] # NoBytes
      THEN [ok |-> TRUE,
            destination |-> Splice(destination, PAGE_SIZE, 0, PAGE_SIZE, pages[page_id], 0)]
      ELSE [ok |-> FALSE, destination |-> destination]

\* BufferManager::write_page(page_id, guard): the bytes of the guard's page
\* are handed to the file manager
write_page(pages, page_id, page) == fm_write_page(pages, page_id, PageBytes(page))

\* What get_or_load_buffered_page returns once file_manager.read_page has
\* returned r: a guard on the frame's page, or IoReadFailed
loaded_from(page_id, r, written_before) ==
    IF r.ok
      THEN [page |-> page_id, res |-> "Ok", data |-> FromBytes(r.destination, 0),
            written_before |-> written_before]
      ELSE [page |-> page_id, res |-> "IoReadFailed", data |-> new_zeroed,
            written_before |-> written_before]

\* read_page(page_id) on a pool that does not hold the page: the load into
\* a frame of BufferFrame::default
cold_read_page(pages, page_id, written_before) ==
    loaded_from(page_id, fm_read_page(pages, page_id, PageBytes(new_zeroed)), written_before)

\* StorageManager::new_page(p) followed by initialize(p, Unsorted)
IoNewPage(p) ==
    /\ io.held = None /\ io.written[p] = NoBytes
    /\ data' = initialize(p, PT_UNSORTED)
    /\ opCount' = 0
    /\ last' = Op("initialize", "Ok", None, NoRow)
    /\ lastCompact' = NoCompact
    /\ io' = [io EXCEPT !.held = p]
    /\ UNCHANGED <<bufVars, diskVars>>

\* StorageManager::write_page(page_id, guard), which consumes the guard
WritePage ==
    /\ io.held # None
    /\ io' = [io EXCEPT !.held = None,
                        !.file = write_page(io.file, io.held, data),
                        !.written[io.held] = PageBytes(data)]
    /\ UNCHANGED <<pageVars, bufVars, diskVars>>

\* StorageManager::read_page(p) through another pool on the same file
\* manager
ReadElsewhere(p) ==
    /\ io' = [io EXCEPT !.loaded = cold_read_page(io.file, p, io.written[p] # NoBytes)]
    /\ UNCHANGED <<pageVars, bufVars, diskVars>>

\* The calls made through the write guard
IoPageCall ==
    \/ \E bytes \in PageRows : InsertHeap(bytes)
    \/ \E i \in SlotIndexes, c \in BOOLEAN : DeleteRow(i, c)
    \/ \E i \in SlotIndexes, new_row \in PageRows : UpdateRow(i, new_row)

IoNext ==
    \/ \E p \in Pages : IoNewPage(p)
    \/ io.held # None /\ opCount < IoOps /\ IoPageCall
    \/ WritePage
    \/ \E p \in Pages : ReadElsewhere(p)

IoSpec == PageInit /\ [][IoNext]_vars

\* C16: once write_page(p, guard) has handed the page's bytes to the file
\* manager, a later read_page(p) through a pool in which p is not resident
\* succeeds and yields a page whose data() bytes are the bytes written.
RoundTripViaIo ==
    io.loaded.written_before =>
        /\ io.loaded.res = "Ok"
        /\ PageBytes(io.loaded.data) = io.written[io.loaded.page]

\* Both pages have been written, and the second, a page with a row and a
\* deleted slot, has been loaded by the other pool
LoadedWrittenPage ==
    /\ \A p \in Pages : io.written[p] # NoBytes
    /\ io.loaded.page = 2 /\ io.loaded.res = "Ok"
    /\ get_slot_count(io.loaded.data) = 2
    /\ get_free_space(io.loaded.data) < 3000

\* Thread t holds the guard new_page returned and has not initialized the
\* page yet
HoldsNewPage(t) ==
    /\ th[t].pc = "holding" /\ th[t].op = "new_page"
    /\ frames[th[t].frame_id].content # "initialized"

\* Some load has failed
SomeLoadFailed == \E e \in 1 .. Len(entries) : entries[e].failed

PT_INDEX_LEAF == 4

\* Calls made on the page besides initialize
InitOps == 3

\* The page numbers and page types initialize is called with
PageNumbers == {0, 1}
PageTypes == {PT_UNSORTED, PT_INDEX_LEAF}

\* Only the header's bytes are zeroed
ZeroHeaderOnly(d) ==
    FromBytes(Splice(PageBytes(d), PAGE_SIZE, 0, HEADER_SIZE, Const(0), 0), 0)

\* (&mut *self.data)[..].fill(0)
fill_zero(d) ==
    FromBytes(Splice(PageBytes(d), PAGE_SIZE, 0, PAGE_SIZE, Const(0), 0), 0)

\* Page::initialize on page d: zero the array, then reset the header
initialize_page(d, page_number, page_type) ==
    HeaderDefault(fill_zero(d), page_number, page_type)

\* The page before and after a call that is not a compaction
Rewritten(pre, post) == [ran |-> FALSE, pre |-> pre, post |-> post]

\* initialize(PageId(_, page_number), page_type)
Initialize(page_number, page_type) ==
    /\ data' = initialize_page(data, page_number, page_type)
    /\ last' = Op("initialize", "Ok", page_number, NoRow)
    /\ lastCompact' = Rewritten(data, data')
    /\ UNCHANGED <<opCount, bufVars, ioVars>>

InitNext ==
    \/ \E bytes \in PageRows : opCount < InitOps /\ InsertHeap(bytes)
    \/ \E i \in SlotIndexes, c \in BOOLEAN : opCount < InitOps /\ DeleteRow(i, c)
    \/ \E i \in SlotIndexes, new_row \in PageRows : opCount < InitOps /\ UpdateRow(i, new_row)
    \/ \E page_number \in PageNumbers, page_type \in PageTypes :
          Initialize(page_number, page_type)

InitSpec == PageInit /\ [][InitNext]_vars

\* The 4096 bytes that are zero but for the header fields of an empty page
FreshBytes(page_number, page_type) ==
    PageBytes([hdr |-> [slot_count |-> 0, free_start |-> 96, free_end |-> 4095,
                        free_space |-> 4000, can_compact |-> 0,
                        page_number |-> page_number, page_type |-> page_type],
               slots |-> << >>,
               body |-> Const(0)])

\* C18: initialize(p, t) on a page in any state gives 4096 bytes that depend
\* on p.page_number and t only: zero everywhere but for slot_count = 0,
\* free_start = 96, free_end = 4095, free_space = 4000, page_number and
\* page_type; so initializing twice gives what initializing once gives.
InitializeDependsOnArgsOnly ==
    [][\A page_number \in PageNumbers, page_type \in PageTypes :
          Initialize(page_number, page_type) =>
              PageBytes(data') = FreshBytes(page_number, page_type)]_vars

\* A page with a row and a hole, of another page number, has been
\* initialized
InitializedUsedPage ==
    /\ last.op = "initialize"
    /\ ValidSlots(lastCompact.pre) # {}
    /\ get_can_compact(lastCompact.pre) = 1
    /\ lastCompact.pre.hdr.page_number # last.slot

\* Byte b of page p lies in the row of a valid slot
Covered(p, b) ==
    \E j \in ValidSlots(p) :
        slot_offset(p, j) <= b /\ b < slot_offset(p, j) + slot_length(p, j)

\* Where the leftmost hole of p can start: at the end of the header or of
\* a valid row
HoleStarts(p) ==
    {HEADER_SIZE} \cup {slot_offset(p, j) + slot_length(p, j) : j \in ValidSlots(p)}

\* Some byte of [HEADER_SIZE, free_start) lies in no valid row
HasHole(p) == \E b \in HoleStarts(p) : b < get_free_start(p) /\ ~Covered(p, b)

\* C19: on every reachable page can_compact is 1 if and only if the page
\* has a hole, a byte of [96, free_start) that no valid row covers; in
\* particular the page compact() leaves has can_compact = 0.
CanCompactIffHole ==
    /\ get_can_compact(data) = 1 <=> HasHole(data)
    /\ lastCompact.ran => get_can_compact(lastCompact.post) = 0

\* Slot j holds the same row on page q as on page p
SameRow(p, q, j) ==
    /\ j \in ValidSlots(q)
    /\ read_row_internal(q, j) = read_row_internal(p, j)

\* The step is a successful insert_heap, delete_row or update_row
PageCallSucceeds ==
    /\ opCount' = opCount + 1
    /\ last'.op \in {"insert_heap", "delete_row", "update_row"}
    /\ last'.res = "Ok"

\* C20: a successful insert_heap (with the plan plan_insert just returned),
\* delete_row or update_row leaves every other valid slot valid under the
\* same index, and row(j) of it returns the bytes it returned before, also
\* when the call compacts the page or relocates the row.
RowIsolation ==
    [][PageCallSucceeds =>
          \A j \in ValidSlots(data) \ {last'.slot} : SameRow(data, data', j)]_vars

\* The range [o, o + row_len) touches the row of no valid slot of d
ClearOfRows(d, o, row_len) ==
    \A j \in ValidSlots(d) :
        \/ o + row_len <= slot_offset(d, j)
        \/ slot_offset(d, j) + slot_length(d, j) <= o

\* The range [o, o + row_len) ends below the slot array as it will be once
\* the plan's slot is in it
BelowSlotArray(d, o, row_len, slot) ==
    o + row_len <= get_free_end(d) + 1 - (IF slot = New THEN SLOT_SIZE ELSE 0)

\* A plan with an Exact offset names a range that is free
PlanIsSafe(d, row_len, plan) ==
    (plan.res = "Ok" /\ plan.offset.kind = "Exact") =>
        /\ ClearOfRows(d, plan.offset.pos, row_len)
        /\ BelowSlotArray(d, plan.offset.pos, row_len, plan.slot)

\* C21: on every reachable page and for every row_len, when plan_insert
\* returns the offset Exact(o), the range [o, o + row_len) intersects the
\* extent of no valid row and ends at or below free_end + 1, less the 4
\* bytes of the slot entry when the plan's slot is New.
ExactPlanIsSafe ==
    \A row_len \in RowLens : PlanIsSafe(data, row_len, plan_insert_internal(data, row_len))

\* The threads blocked on entry e
SleepingOn(e) == {u \in Threads : th[u].pc = "sleeping" /\ th[u].entry = e}

\* Thread t, whose file read has failed, returns in this step
ReadFailureReturns(t) == th[t].pc = "rollback" /\ th'[t].pc # "rollback"

\* C22: when the loader's file read for page p fails, the call returns
\* IoReadFailed, the page_id of the frame it claimed is None again, the
\* entry it inserted for p stays in state Loading, and the waiters on that
\* entry are not notified, then or later: they leave their wait only by a
\* spurious wake-up, to find the entry Loading still.
ReadFailureLeavesLoading ==
    [][/\ \A t \in Threads :
            ReadFailureReturns(t) =>
                /\ th'[t].result = "IoReadFailed"
                /\ frames'[th[t].frame_id].page_id = None
                /\ entries'[th[t].entry].state = Loading
                /\ SleepingOn(th[t].entry) \subseteq {u \in Threads : th'[u].pc = "sleeping"}
       /\ \A e \in 1 .. Len(entries) :
            entries[e].failed =>
                /\ entries'[e].state = Loading
                /\ \A u \in SleepingOn(e) : th'[u].pc # "sleeping" => SpuriousWakeup(u)]_vars

\* A read has failed with a waiter blocked on its entry, and the frame the
\* loader gave back has been claimed again
WaiterLeftOnFailedRead ==
    \E e \in 1 .. Len(entries) :
        /\ entries[e].failed /\ th[entries[e].loader].result = "IoReadFailed"
        /\ SleepingOn(e) # {}
        /\ \E f \in Frames : frames[f].content = "partial" /\ frames[f].page_id # None
                               /\ frames[f].page_id # entries[e].page

\* The frames claimed for page p
FramesOf(p) == {f \in Frames : frames[f].page_id = p}

\* C23: at every moment and for every PageId p at most one frame has
\* page_id = Some(p), whatever the interleaving of read_page, read_page_mut
\* and new_page calls, new_page(p) for a p already in the page map included.
OneFramePerPage == \A p \in Pages : Cardinality(FramesOf(p)) <= 1

\* The thread that called new_page(p), has made p visible in the page map
\* and has not yet obtained its exclusive latch
CreatorWithoutLatch(t) == th[t].op = "new_page" /\ th[t].pc = "new_guard"

\* A read_page or read_page_mut of page p that holds a latch on frame f
ReaderHolds(u, p, f) == th[u].op \in {"read_page", "read_page_mut"} /\ th[u].page = p /\ th[u].pc = "holding" /\ th[u].frame_id = f /\ Holds(u, f)

\* C24: once new_page(p) has made p visible in the page map, no other
\* thread's read_page(p) or read_page_mut(p) holds a latch on p's frame
\* before the thread that called new_page(p) has obtained its exclusive
\* latch
CreatorLatchesFirst == \A t \in Threads : CreatorWithoutLatch(t) => \A u \in Threads \ {t} : ~ReaderHolds(u, th[t].page, th[t].frame_id)

\* The step of thread t that locks the state mutex of its entry: the look
\* of wait_until_ready, or the loader's publication
TakesStateMutex(t) == th[t].pc \in {"wait", "publish"} /\ th'[t] # th[t]

\* The step of thread t that locks the page map
TakesMapLock(t) == th[t].pc \in {"probe", "recheck", "new_insert"} /\ th'[t] # th[t]

\* Thread t holds no lock on the page of any frame
NoFrameLock(t) == \A f \in Frames : ~Holds(t, f)

\* C25 (as claimed): the entry-state mutex is never locked by a thread that holds a
\* frame-body lock
StateMutexBeforeFrameLock == [][\A t \in Threads : TakesStateMutex(t) => NoFrameLock(t)]_vars

\* C25: the page map is locked by threads that hold no frame-body lock, and
\* no frame-body lock is taken inside a section under the map's lock or
\* under a state mutex; a thread that locks a state mutex while it holds a
\* frame-body lock is the loader publishing Ready, and the lock it holds is
\* the latch on the frame it loaded
LockOrder ==
    [][\A t \in Threads :
         /\ TakesMapLock(t) => NoFrameLock(t) /\ latch' = latch
         /\ TakesStateMutex(t) =>
              /\ latch' = latch
              /\ \A f \in Frames : Holds(t, f) =>
                    /\ th[t].pc = "publish"
                    /\ f = th[t].frame_id
                    /\ entries[th[t].entry].loader = t]_vars

\* A loader that published Ready with its latch held
PublishedUnderLatch == \E t \in Threads :
        /\ th[t].pc = "holding" /\ th[t].entry # None
        /\ entries[th[t].entry].loader = t
        /\ entries[th[t].entry].state = Ready(th[t].frame_id)
        /\ Holds(t, th[t].frame_id)

\* Thread t holds the latch its call asked for on frame f
HoldsRequested(t, f) == IF th[t].op = "read_page" THEN t \in latch[f].readers ELSE latch[f].writer = t

\* Thread t loaded its page and is about to publish Ready, or has published
\* it and not yet dropped the guard it was returned
LoaderLatched(t) == th[t].op \in {"read_page", "read_page_mut"} /\ th[t].entry # None /\ entries[th[t].entry].loader = t /\ th[t].pc \in {"publish", "holding"}

\* C26: the loader of a successful cold load holds the latch it asked for
\* on its frame when it publishes Ready(frame_id) and notifies, and until
\* it drops its guard; when that latch is exclusive no other thread holds
\* any latch on the frame in the meantime
LoaderHoldsLatchAtPublish ==
    \A t \in Threads : LoaderLatched(t) =>
        /\ HoldsRequested(t, th[t].frame_id)
        /\ th[t].op = "read_page_mut" => \A u \in Threads \ {t} : ~Holds(u, th[t].frame_id)

\* A loader holds its exclusive latch after publishing, and a waiter that
\* has seen Ready(frame_id) is blocked on the latch
WaiterBlockedByLoader == \E t \in Threads, u \in Threads :
        /\ LoaderLatched(t) /\ th[t].pc = "holding" /\ th[t].op = "read_page_mut"
        /\ u # t /\ th[u].pc = "make_guard" /\ th[u].entry = th[t].entry
        /\ th[u].frame_id = th[t].frame_id

\* Thread t owns the claim of the frame its frame_id names: it called
\* claim_free_frame, got the frame, and its call has not returned an error
Claimant(t) == th[t].frame_id # None /\ (th[t].op = "new_page" \/ (th[t].entry # None /\ entries[th[t].entry].loader = t))

\* The step in which claim_free_frame of thread t returns Some(frame id)
ClaimReturns(t) == th[t].pc = "claim_check" /\ th'[t].pc \in {"new_insert", "load_lock"}

\* What a successful claim of frame i by thread t does
ClaimsOneFreeFrame(t, i) ==
    /\ i = th[t].i /\ pidLock[i] = t
    /\ frames[i].page_id = None
    /\ frames'[i].page_id = th[t].page
    /\ \A j \in Frames \ {i} : frames'[j] = frames[j]
    /\ \A u \in Threads \ {t} : ~(Claimant(u) /\ th[u].frame_id = i)

\* C27: claim_free_frame is mutually exclusive: a successful claim is made
\* with the frame's page_id lock held, of a frame whose page_id is None,
\* turns that one frame's page_id into Some(p) and changes no other frame,
\* and the frame is not one another thread's claim_free_frame returned and
\* still owns
ClaimIsExclusive == [][\A t \in Threads : ClaimReturns(t) => ClaimsOneFreeFrame(t, th'[t].frame_id)]_vars

\* Two threads own claims at once, the second on the frame after the first's
TwoClaimsTwoFrames == \E t \in Threads, u \in Threads :
        /\ t # u /\ Claimant(t) /\ Claimant(u)
        /\ th[t].frame_id = 0 /\ th[u].frame_id = 1
        /\ th[t].pc \in {"new_insert", "load_lock"} /\ th[u].pc \in {"new_insert", "load_lock"}

\* The pages whose page-map entry is Ready
ReadyPages == {p \in Pages : page_map[p] # None /\ entries[page_map[p]].state.kind = "Ready"}

\* The frame the Ready page-map entry of page p names
ReadyFrame(p) == entries[page_map[p]].state.fid

\* C28: whenever the page-map entry of page p is Ready(f), frame f has
\* page_id = Some(p), and no two page-map entries are Ready with the same
\* frame id
ReadyEntryNamesOwnFrame ==
    /\ \A p \in ReadyPages : frames[ReadyFrame(p)].page_id = p
    /\ \A p \in ReadyPages, q \in ReadyPages : ReadyFrame(p) = ReadyFrame(q) => p = q

\* Two pages are Ready at once, one of them in a frame that an earlier load
\* failed in
TwoReadyAfterFailedLoad ==
    /\ \E p \in ReadyPages, q \in ReadyPages : p # q
    /\ \E p \in ReadyPages : frames[ReadyFrame(p)].content = "partial"

\* The last call was an update_row with a longer row that deleted the old
\* row with compaction and succeeded
UpdateRelocated == last.op = "update_row" /\ last.res = "Ok" /\ lastCompact.ran

\* Sum of the lengths of the valid rows of page p other than slot i's
SumOtherLens(p, i) == SumValidLens(p, 0) - slot_length(p, i)

\* row(i) on page p returns exactly the bytes of r
RowIs(p, i, r) == LET got == read_row_internal(p, i) IN got.res = "Ok" /\ got.len = r.len /\ got.bytes = r.bytes

\* What the relocating update_row(i, r) leaves on page p
RelocatedTo(p, i, r) ==
    /\ slot_offset(p, i) = HEADER_SIZE + SumOtherLens(p, i)
    /\ slot_length(p, i) = r.len
    /\ get_free_start(p) = slot_offset(p, i) + r.len
    /\ RowIs(p, i, r)
    /\ slot_offset(p, i) + r.len <= get_free_end(p) + 1

RowsAfter(d, i) == {j \in ValidSlots(d) \ {i} : slot_offset(d, j) >= slot_offset(d, i)}

\* The start of the row that physically follows slot i's row on page d
NextRowStart(d, i) == LET j == CHOOSE j \in RowsAfter(d, i) : \A k \in RowsAfter(d, i) : slot_offset(d, j) <= slot_offset(d, k) IN slot_offset(d, j)

\* The contiguous free area of page d is too small for row_len bytes, and
\* the bytes of slot i's row plus the gap up to the next row hold them
GrowsInOwnGap(d, i, row_len) ==
    /\ SlotArrayOk(d) /\ SlotInRange(d, i) /\ i \in ValidSlots(d)
    /\ row_len > slot_length(d, i)
    /\ row_len <= get_free_space(d) + slot_length(d, i)
    /\ get_free_end(d) - get_free_start(d) < row_len
    /\ RowsAfter(d, i) # {}
    /\ NextRowStart(d, i) - slot_offset(d, i) >= row_len

\* update_row(i, r) on page d wrote r in place and left page d2
GrownInPlace(d, d2, i, r) ==
    /\ slot_offset(d2, i) = slot_offset(d, i)
    /\ slot_length(d2, i) = r.len
    /\ get_free_start(d2) = get_free_start(d)
    /\ RowIs(d2, i, r)

\* The step is a call of update_row
UpdateRowCalled == opCount' = opCount + 1 /\ last'.op = "update_row"

\* C30 (as claimed): update_row(i, r) with r longer than the old row, on a page whose
\* contiguous free area is too small for r while slot i's own bytes plus
\* the free gap up to the next row hold len(r) bytes, writes r at slot i's
\* old offset: the slot's offset is unchanged, its length becomes len(r),
\* and free_start is unchanged
GrowInPlace ==
    [][(UpdateRowCalled /\ GrowsInOwnGap(data, last'.slot, last'.row.len)) =>
          last'.res = "Ok" /\ GrownInPlace(data, data', last'.slot, last'.row)]_vars

\* ------------------------------------------------------------------------
\* The same calls on a page with two gaps between its rows.  The page is
\* the one reached from Page::initialize by inserting rows of 1, 1000, 1000
\* and 1000 bytes, deleting the second without compaction and shrinking the
\* third to 1 byte: rows at (96, 1), (1097, 1) and (2097, 1000), with 1000
\* free bytes before the row of slot 2 and 999 after it.
\* ------------------------------------------------------------------------
GapPage ==
    LET p0 == initialize(0, PT_UNSORTED)
        p1 == PlanAndInsert(p0, FillRow(1, 21))
        p2 == PlanAndInsert(p1, FillRow(1000, 22))
        p3 == PlanAndInsert(p2, FillRow(1000, 23))
        p4 == PlanAndInsert(p3, FillRow(1000, 24))
        p5 == delete_row_internal(p4, 1, FALSE).data
    IN  update_internal(p5, 2, FillRow(1, 25)).data

GapInit ==
    /\ data = GapPage
    /\ opCount = 0
    /\ last = Op("update_row", "Ok", 2, FillRow(1, 25))
    /\ lastCompact = NoCompact
    /\ BufferManagerNew
    /\ IoInit
    /\ DiskFileManagerNew

GapSpec == GapInit /\ [][PageNext]_vars

\* Valid rows a and b of page d follow each other in the order of their
\* starts, b being slot i's row or a row before it, and the bytes between
\* the end of a and the start of b hold row_len bytes (slot i's row counts
\* as empty)
GapBefore(d, i, row_len, a, b) ==
    /\ a # b /\ slot_offset(d, a) <= slot_offset(d, b) /\ slot_offset(d, b) <= slot_offset(d, i)
    /\ \A c \in ValidSlots(d) \ {a, b} : slot_offset(d, c) <= slot_offset(d, a) \/ slot_offset(d, c) >= slot_offset(d, b)
    /\ slot_offset(d, b) - (slot_offset(d, a) + (IF a = i THEN 0 ELSE slot_length(d, a))) >= row_len

\* No gap between two rows that lies before slot i's row holds row_len bytes
NoEarlierGap(d, i, row_len) == \A a \in ValidSlots(d), b \in ValidSlots(d) : ~GapBefore(d, i, row_len, a, b)

\* C30: update_row(i, r) with r longer than the old row, on a page whose
\* contiguous free area is too small for r while slot i's own bytes plus
\* the free gap up to the next row hold len(r) bytes, writes r at slot i's
\* old offset and leaves the slot's offset and free_start unchanged when no
\* gap before the row holds len(r) bytes: the planner takes the first gap
\* in the physical order of the rows
GrowInPlaceIfFirstGap ==
    [][(/\ UpdateRowCalled
        /\ GrowsInOwnGap(data, last'.slot, last'.row.len)
        /\ NoEarlierGap(data, last'.slot, last'.row.len)) =>
          last'.res = "Ok" /\ GrownInPlace(data, data', last'.slot, last'.row)]_vars

\* The first call on the page with two gaps was an update_row that grew the
\* row of slot 0 in place
GrewInPlace ==
    /\ opCount = 1 /\ last.op = "update_row" /\ last.res = "Ok" /\ last.slot = 0
    /\ GrowsInOwnGap(GapPage, 0, last.row.len)
    /\ NoEarlierGap(GapPage, 0, last.row.len)
    /\ GrownInPlace(GapPage, data, 0, last.row)

\* The last call was an insert_heap of a plan with offset
\* AfterCompactionFreeStart, and it succeeded
InsertCompacted == last.op = "insert_heap" /\ last.res = "Ok" /\ lastCompact.ran

\* What the compacting insert_heap of row r into slot i leaves on page p,
\* pre being the page the call was made on
InsertedAfterCompaction(pre, p, i, r) ==
    /\ slot_offset(p, i) = HEADER_SIZE + SumValidLens(pre, 0)
    /\ slot_length(p, i) = r.len
    /\ get_free_start(p) = slot_offset(p, i) + r.len
    /\ slot_offset(p, i) + r.len <= get_free_end(p) + 1

DeletedWithoutCompaction == opCount' = opCount + 1 /\ last'.op = "delete_row" /\ last'.res = "Ok" /\ ~lastCompact'.ran

\* Slot i has the highest offset among the valid slots of page d
HighestOffset(d, i) == \A j \in ValidSlots(d) : slot_offset(d, j) <= slot_offset(d, i)

\* offset + length of the valid slot of page d, other than slot i, with
\* the highest offset, or 96 if slot i is the only valid slot
EndOfSecondHighest(d, i) ==
    LET others == ValidSlots(d) \ {i}
        j == CHOOSE j \in others : \A k \in others : slot_offset(d, k) <= slot_offset(d, j)
    IN  IF others = {} THEN HEADER_SIZE ELSE slot_offset(d, j) + slot_length(d, j)

\* What delete_row(i, false) on page d does to free_start and can_compact
TrailingRowShortcut(d, d2, i) ==
    IF HighestOffset(d, i)
      THEN get_free_start(d2) = EndOfSecondHighest(d, i) /\ get_can_compact(d2) = get_can_compact(d)
      ELSE get_free_start(d2) = get_free_start(d) /\ get_can_compact(d2) = 1

\* C32: delete_row(i, false) on a valid slot i with the highest offset
\* among the valid slots sets free_start to offset + length of the valid
\* slot with the second-highest offset, or to 96 if there is none, and does
\* not set can_compact; on any other valid slot it leaves free_start
\* unchanged and sets can_compact to 1
TrailingShortcut == [][DeletedWithoutCompaction => TrailingRowShortcut(data, data', last'.slot)]_vars

\* The first call on the page with two gaps was delete_row(3, false): slot 3
\* had the highest offset, slot 2 the second-highest, and slot 1 between
\* them in the slot array was invalid
DeletedTrailingRow ==
    /\ opCount = 1 /\ last.op = "delete_row" /\ last.res = "Ok" /\ last.slot = 3 /\ ~lastCompact.ran
    /\ HighestOffset(GapPage, 3) /\ 1 \notin ValidSlots(GapPage)
    /\ get_free_start(data) = slot_offset(GapPage, 2) + slot_length(GapPage, 2)
    /\ get_free_start(data) < get_free_start(GapPage)

\* Sum of the lengths of the valid rows of page p in slots below i
SumLensBelow(p, i) == SumValidLens(p, 0) - SumValidLens(p, i)

\* Page post is page pre with its valid rows packed from offset 96 in the
\* order of their slot indexes
PackedInSlotOrder(pre, post) ==
    /\ get_slot_count(post) = get_slot_count(pre)
    /\ get_free_end(post) = get_free_end(pre)
    /\ ValidSlots(post) = ValidSlots(pre)
    /\ \A i \in 0 .. get_slot_count(pre) - 1 :
          IF i \in ValidSlots(pre)
            THEN /\ slot_length(post, i) = slot_length(pre, i)
                 /\ slot_offset(post, i) = HEADER_SIZE + SumLensBelow(post, i)
            ELSE slot_offset(post, i) = 0 /\ slot_length(post, i) = 0
    /\ get_free_start(post) = HEADER_SIZE + SumValidLens(post, 0)

\* C33: after compact() the valid rows lie one after the other from offset
\* 96 to free_start in increasing slot-index order, free_start is 96 + the
\* sum of their lengths, invalid slots are still (0, 0), and slot_count and
\* free_end are unchanged
CompactPacksInSlotOrder == lastCompact.ran => PackedInSlotOrder(lastCompact.pre, lastCompact.post)

\* compact() ran on a page whose rows were not in slot-index order and
\* moved a row
CompactReordered ==
    /\ lastCompact.ran
    /\ \E i \in ValidSlots(lastCompact.pre), j \in ValidSlots(lastCompact.pre) :
          /\ i < j /\ slot_offset(lastCompact.pre, i) > slot_offset(lastCompact.pre, j)
          /\ slot_offset(lastCompact.post, i) < slot_offset(lastCompact.post, j)

\* ------------------------------------------------------------------------
\* The same calls on a fresh page, with rows of 0, 1 and 1000 bytes: an
\* empty row is a row like any other to plan_insert, insert_heap and
\* update_row.
\* ------------------------------------------------------------------------
EmptyNext ==
    \/ \E n \in {0, 1, 1000} : opCount < EmptyOps /\ InsertHeap(FillRow(n, NextFill))
    \/ \E i \in SlotIndexes, c \in BOOLEAN : opCount < EmptyOps /\ DeleteRow(i, c)
    \/ \E i \in SlotIndexes, n \in {0, 1, 1000} : opCount < EmptyOps /\ UpdateRow(i, FillRow(n, NextFill))

EmptySpec == PageInit /\ [][EmptyNext]_vars

\* Slot i of page p is not the pair (0, 0)
NotBothZero(p, i) == slot_offset(p, i) # 0 \/ slot_length(p, i) # 0

\* C34: a slot is invalid to plan_insert, delete_row, update_row and
\* compact() if and only if both its offset and its length are 0; a slot
\* with a non-zero offset and length 0, an empty row, is valid
InvalidIffBothZero == \A i \in 0 .. get_slot_count(data) - 1 : is_slot_valid(data, i) <=> NotBothZero(data, i)

\* The step is a call that returned NotEnoughSpace or InvalidSlot
CallFailed == opCount' = opCount + 1 /\ last'.res \in {"NotEnoughSpace", "InvalidSlot"}

\* C35: a plan_insert, delete_row or update_row that returns NotEnoughSpace
\* or InvalidSlot leaves all 4096 bytes of the page as they were; update_row
\* returns no error once it has deleted or moved a row
FailedCallChangesNothing == [][CallFailed => PageBytes(data') = PageBytes(data)]_vars

\* ------------------------------------------------------------------------
\* The calls on the page whose last row is written over by its own slot
\* entry, with rows of 1 and of 992 bytes (the longest row plan_insert admits
\* for a new slot) and a row as long as the last row whose last three bytes spell
\* out the offset 1025 and the length byte 255.
\* ------------------------------------------------------------------------
TornRows(v) == {FillRow(1, v), FillRow(get_free_space(OverlappedPage) - SLOT_SIZE, v), TrailerRow(OverlapLen, v, <<1, 4, 255>>)}

TornNext ==
    \/ \E bytes \in TornRows(NextFill) : opCount < OverlapOps /\ InsertHeap(bytes)
    \/ \E i \in SlotIndexes, c \in BOOLEAN : opCount < OverlapOps /\ DeleteRow(i, c)
    \/ \E i \in SlotIndexes, new_row \in TornRows(NextFill) : opCount < OverlapOps /\ UpdateRow(i, new_row)

TornSpec == OverlapInit /\ [][TornNext]_vars

\* C36: an insert_heap(plan, b) made with the plan plan_insert(len(b))
\* returned on the same page returns Ok: no subtraction underflows, the
\* scratch buffer of the compaction is large enough, and the row is written
\* inside the 4096 bytes
PlannedInsertSucceeds == last.op = "insert_heap" => last.res = "Ok"

\* ------------------------------------------------------------------------
\* The guards on frame f that were returned to a caller and not yet dropped
GuardsOn(f) == {t \in Threads : th[t].pc = "holding" /\ th[t].frame_id = f}

\* Some call is at work on frame f: it has claimed or found the frame and
\* not yet returned
InCallOn(f) == \E t \in Threads : th[t].frame_id = f /\ th[t].pc # "holding"

\* C37: whenever no call is at work on a frame, the frame's pin count is
\* the number of guards on that frame that were returned and not yet
\* dropped, so that it goes down when a guard is dropped
PinCountIsGuards == \A f \in Frames : ~InCallOn(f) => frames[f].pin_count = Cardinality(GuardsOn(f))

\* ------------------------------------------------------------------------
\* The step of thread t takes a lock on the page of some frame
TakesFrameLock(t) == \E f \in Frames : ~Holds(t, f) /\ latch'[f] # latch[f] /\ (latch'[f].writer = t \/ t \in latch'[f].readers)

\* The step of thread t is part of a file-manager call
FileManagerCall(t) == th[t].pc \in {"load_read", "reading"} /\ th'[t] # th[t]

\* C38: the sections under the page map's read or write lock, in read_page,
\* read_page_mut and new_page, are run by threads that hold no frame-body
\* lock, take none inside the section, and read or write no page of the
\* file manager inside it; the lock is given up at the end of each section
MapLockIsShort ==
    [][\A t \in Threads :
         /\ TakesMapLock(t) => NoFrameLock(t) /\ ~TakesFrameLock(t) /\ hist'.reads = hist.reads /\ frames' = frames
         /\ TakesFrameLock(t) \/ FileManagerCall(t) => th[t].pc \notin {"probe", "recheck", "new_insert"}]_vars

\* A loader is inside file_manager.read_page with the write lock of its
\* frame, its Loading entry in the map, while another thread has inserted
\* its entry under the map's write lock and goes on
ReadsWithMapFree == \E t \in Threads, u \in Threads :
        /\ t # u
        /\ th[t].pc = "reading" /\ latch[th[t].frame_id].writer = t
        /\ page_map[th[t].page] = th[t].entry
        /\ th[u].pc \in {"claim_try", "new_guard"} /\ page_map[th[u].page] # None
        /\ th[u].page # th[t].page

\* ------------------------------------------------------------------------
\* DiskFileManager: the lazy open of the files, under every interleaving of
\* the callers of read_page and write_page.  Every open call makes a handle
\* of its own: the handles of file f are f, f + NumFiles, f + 2 * NumFiles, ..

\* read_page(page_id, ..) or write_page(page_id, ..) of a page of file f is
\* entered by caller c
FmCall(c, op, f) ==
    /\ fmc[c].pc = "idle"
    /\ fmc' = [fmc EXCEPT ![c] = [FmIdle EXCEPT !.pc = "fast", !.op = op, !.file_id = f]]
    /\ UNCHANGED <<files, filesLock, fmHist, io, pageVars, bufVars>>

\* self.files.read().unwrap(): blocks while the lock is write-locked, and
\* panics when the lock is poisoned
FastPathLock(c) ==
    /\ fmc[c].pc = "fast"
    /\ filesLock.writer = None
    /\ IF filesLock.poisoned
         THEN /\ fmc' = [fmc EXCEPT ![c] = [@ EXCEPT !.pc = "panicked"]]
              /\ UNCHANGED filesLock
         ELSE /\ fmc' = [fmc EXCEPT ![c] = [@ EXCEPT !.pc = "fast_get"]]
              /\ filesLock' = [filesLock EXCEPT !.readers = @ \cup {c}]
    /\ UNCHANGED <<files, fmHist, io, pageVars, bufVars>>

\* The fast path: files.get(&file_id) under the read lock, which is given
\* up at the end of the block
FastPathGet(c) ==
    /\ fmc[c].pc = "fast_get"
    /\ fmc' = [fmc EXCEPT ![c] =
                 IF files[fmc[c].file_id] # None
                   THEN [@ EXCEPT !.pc = "io", !.file = files[fmc[c].file_id], !.path = "fast"]
                   ELSE [@ EXCEPT !.pc = "slow"]]
    /\ filesLock' = [filesLock EXCEPT !.readers = @ \ {c}]
    /\ UNCHANGED <<files, fmHist, io, pageVars, bufVars>>

\* self.files.write().unwrap(): blocks while the lock has any holder
SlowPathLock(c) ==
    /\ fmc[c].pc = "slow"
    /\ filesLock.writer = None /\ filesLock.readers = {}
    /\ IF filesLock.poisoned
         THEN /\ fmc' = [fmc EXCEPT ![c] = [@ EXCEPT !.pc = "panicked"]]
              /\ UNCHANGED filesLock
         ELSE /\ fmc' = [fmc EXCEPT ![c] = [@ EXCEPT !.pc = "double_check"]]
              /\ filesLock' = [filesLock EXCEPT !.writer = c]
    /\ UNCHANGED <<files, fmHist, io, pageVars, bufVars>>

\* A slow path that opens the file without looking at the map again
OpenUnchecked(c) ==
    /\ fmc[c].pc = "double_check"
    /\ fmc' = [fmc EXCEPT ![c] = [@ EXCEPT !.pc = "open"]]
    /\ UNCHANGED <<files, filesLock, fmHist, io, pageVars, bufVars>>

\* The double check under the write lock: a handle found now is returned
\* and the lock given up
DoubleCheck(c) ==
    /\ fmc[c].pc = "double_check"
    /\ IF files[fmc[c].file_id] # None
         THEN /\ fmc' = [fmc EXCEPT ![c] = [@ EXCEPT !.pc = "io", !.file = files[fmc[c].file_id], !.path = "double_check"]]
              /\ filesLock' = [filesLock EXCEPT !.writer = None]
         ELSE /\ fmc' = [fmc EXCEPT ![c] = [@ EXCEPT !.pc = "open"]]
              /\ UNCHANGED filesLock
    /\ UNCHANGED <<files, fmHist, io, pageVars, bufVars>>

\* The handle the next open call of file f makes
NewHandle(f) == NumFiles * fmHist.opened[f] + f

\* get_file_name, ensure_parent_dir and OpenOptions::open under the write
\* lock: the handle is inserted and returned, or the expect panics and the
\* unwinding poisons the lock
OpenFile(c, ok) ==
    LET f == fmc[c].file_id IN
    /\ fmc[c].pc = "open"
    /\ IF ok
         THEN /\ fmHist' = [fmHist EXCEPT !.opened[f] = @ + 1]
              /\ files' = [files EXCEPT ![f] = NewHandle(f)]
              /\ fmc' = [fmc EXCEPT ![c] = [@ EXCEPT !.pc = "io", !.file = NewHandle(f), !.path = "open"]]
              /\ filesLock' = [filesLock EXCEPT !.writer = None]
         ELSE /\ fmc' = [fmc EXCEPT ![c] = [@ EXCEPT !.pc = "panicked"]]
              /\ filesLock' = [filesLock EXCEPT !.writer = None, !.poisoned = TRUE]
              /\ UNCHANGED <<files, fmHist>>
    /\ UNCHANGED <<io, pageVars, bufVars>>

\* read_at / write_at on the handle get_or_open_file returned, and the
\* return of the call
PositionalIo(c) ==
    /\ fmc[c].pc = "io"
    /\ fmHist' = [fmHist EXCEPT !.used[fmc[c].file_id] = @ \cup {fmc[c].file}]
    /\ fmc' = [fmc EXCEPT ![c] = [@ EXCEPT !.pc = "returned", !.op = "none"]]
    /\ UNCHANGED <<files, filesLock, io, pageVars, bufVars>>

\* get_or_open_file(file_id), step by step
get_or_open_file(c) ==
    \/ FastPathLock(c)
    \/ FastPathGet(c)
    \/ SlowPathLock(c)
    \/ DoubleCheck(c)
    \/ \E ok \in BOOLEAN : OpenFile(c, ok)

DiskNext ==
    \/ \E c \in Callers, f \in FileIds : FmCall(c, "read_page", f)
    \/ \E c \in Callers, f \in FileIds : FmCall(c, "write_page", f)
    \/ \E c \in Callers : get_or_open_file(c)
    \/ \E c \in Callers : PositionalIo(c)

DiskSpec == PageInit /\ [][DiskNext]_vars

\* The callers that were given a handle of file f
GivenHandle(f) == {c \in Callers : fmc[c].file_id = f /\ fmc[c].file # None}

\* C39: under every interleaving of read_page and write_page calls each
\* file is opened at most once, and every caller that is given a handle of
\* the file is given the one handle the map holds, which is the only one
\* positional I/O is done on
OpenedAtMostOnce == \A f \in FileIds :
        /\ fmHist.opened[f] <= 1
        /\ \A c \in GivenHandle(f) : fmc[c].file = files[f]
        /\ fmHist.used[f] \subseteq {files[f]}

\* Two callers missed the same file on the fast path; one opened it, the
\* other found the handle at the double check, and a third caller found it
\* on the fast path
LostTheRace == \E c \in Callers, d \in Callers, e \in Callers :
        /\ fmc[c].file_id = fmc[d].file_id /\ fmc[e].file_id = fmc[c].file_id
        /\ fmc[c].path = "open" /\ fmc[d].path = "double_check" /\ fmc[e].path = "fast"
        /\ fmc[d].pc = "returned" /\ fmc[e].pc = "returned"

====
